---- MODULE Spec2Model ----
(***************************************************************************)
(* A model of the rusb platform layer: the transfer paths of the usbfs,    *)
(* WinUSB, IOKit and WebUSB backends, the claimed-interface map of a       *)
(* device handle, the handle's drop sequence and the open paths.           *)
(***************************************************************************)
EXTENDS Integers, Sequences, FiniteSets, TLC

(***************************************************************************)
(* Program constants.                                                      *)
(***************************************************************************)
MAX_BULK_BUFFER_LENGTH == 16384
USBFS_CAP_NO_PACKET_SIZE_LIM == 4
U16_MAX == 65535
\* u32::MAX is 2^32 - 1, beyond the 32-bit signed integers TLC computes with.
\* The model puts TLC's largest integer in its place: every length and every
\* millisecond count the model forms lies below both, so each comparison with
\* and each minimum against u32::MAX comes out as in the code.
U32_MAX == 2147483647
EINVAL == 22
ETIMEDOUT == 110
ENODEV == 19
EPIPE == 32

Backends == {"usbfs", "winusb", "iokit", "webusb"}
NativeBackends == {"usbfs", "winusb", "iokit"}

(***************************************************************************)
(* Inputs of the transfer calls.                                           *)
(***************************************************************************)
\* request_type bytes: standard OUT/IN to the device, class OUT/IN to an
\* interface, and an OUT request with the reserved type bits 6..5 = 3.
RequestTypes == {0, 128, 33, 161, 96}
Requests == {[request_type |-> rt, request |-> 6, value |-> 256, index |-> 0] : rt \in RequestTypes}
ControlLens == {0, 18, 65535, 65536}
ControlDatas == {[tag |-> "None", len |-> 0]} \cup {[tag |-> t, len |-> l] : t \in {"In", "Out"}, l \in ControlLens}
BulkLens == {0, 64, 16384, 16385, 40960}
TransferBuffers == {[tag |-> t, len |-> l] : t \in {"In", "Out"}, l \in BulkLens}
\* Endpoint addresses: bit 7 is the direction (1 = IN).
Endpoints == {129, 2}
\* std::time::Duration: whole seconds and the nanoseconds below a second.
Duration(secs, nanos) == [secs |-> secs, nanos |-> nanos]
\* Zero, half a millisecond, two milliseconds.
Durations == {Duration(0, 0), Duration(0, 500000), Duration(0, 2000000)}
\* Capability words a usbfs handle can cache (0 when the query failed).
CapsValues == {0, 1, 4, 5}

FailCauses == {"timeout", "disconnected", "stall"}
Min(a, b) == IF a < b THEN a ELSE b

\* What one backend call can return when asked to move len bytes: a count of
\* at most len, or a failure.  WebUSB results also carry a status string.
Counts(len) == {0, len \div 2, len}
Returns(len) ==
    {[ok |-> TRUE, n |-> k, cause |-> "none", status |-> "ok"] : k \in Counts(len)}
    \cup {[ok |-> FALSE, n |-> 0, cause |-> c, status |-> "ok"] : c \in FailCauses}
WebReturns(len) ==
    Returns(len)
    \cup {[ok |-> TRUE, n |-> k, cause |-> "none", status |-> "stall"] : k \in {0, len}}

\* The native status code a failed backend call reports.
NativeCode(b, cause) ==
    CASE b = "usbfs" /\ cause = "timeout" -> ETIMEDOUT
      [] b = "usbfs" /\ cause = "disconnected" -> ENODEV
      [] b = "usbfs" -> EPIPE
      [] b = "winusb" /\ cause = "timeout" -> 0 - 2147024775
      [] b = "winusb" /\ cause = "disconnected" -> 0 - 2147023729
      [] b = "winusb" -> 0 - 2147024865
      [] b = "iokit" /\ cause = "timeout" -> 0 - 536854447
      [] b = "iokit" /\ cause = "disconnected" -> 0 - 536870208
      [] b = "iokit" -> 0 - 536854449
      [] cause = "timeout" -> 23
      [] OTHER -> 19

(***************************************************************************)
(* enum Error (lib.rs): Os(i32), NotSupported, Unknown.                    *)
(***************************************************************************)
Ok(n) == [tag |-> "Ok", n |-> n, kind |-> "none", code |-> 0]
Err(kind, code) == [tag |-> "Err", n |-> 0, kind |-> kind, code |-> code]
ErrorOs(code) == Err("Os", code)
ErrorNotSupported == Err("NotSupported", 0)
ErrorUnknown == Err("Unknown", 0)
NoResult == [tag |-> "None", n |-> 0, kind |-> "none", code |-> 0]

\* impl From<std::io::Error> for Error
from_io_error(errno) == ErrorOs(errno)

\* linux.rs invalid_argument()
invalid_argument == from_io_error(EINVAL)

IsErr(r) == r.tag = "Err"
IsOk(r) == r.tag = "Ok"

(***************************************************************************)
(* Control request and buffer helpers (lib.rs).                            *)
(***************************************************************************)
\* `as u16` keeps the low 16 bits; `as u32` keeps the low 32 bits, which for
\* the non-negative integers below 2^31 of this model is the value itself.
as_u16(x) == x % 65536
as_u32(x) == x

\* Millisecond counts reach past 2^31, so they are kept as two 16-bit limbs
\* <<hi, lo>> standing for hi * 65536 + lo; a u32 has hi < 65536.
Wide(hi, lo) == <<hi, lo>>
Zero32 == Wide(0, 0)
\* u32::MAX as u128
u32_max_wide == Wide(65535, 65535)
wide_less(a, b) == a[1] < b[1] \/ (a[1] = b[1] /\ a[2] < b[2])
\* u128::min
wide_min(a, b) == IF wide_less(a, b) THEN a ELSE b
\* `as u32` on a u128: the low 32 bits
wide_as_u32(a) == Wide(a[1] % 65536, a[2])
\* Duration::is_zero
is_zero(d) == d.secs = 0 /\ d.nanos = 0
\* Duration::as_millis: secs * 1000 + nanos / 1_000_000
as_millis(d) ==
    LET low == (d.secs % 65536) * 1000 + d.nanos \div 1000000
    IN Wide((d.secs \div 65536) * 1000 + low \div 65536, low % 65536)

\* request.request_type & 0x80 != 0
setup_direction(request) == IF (request.request_type \div 128) % 2 = 1 THEN "In" ELSE "Out"
\* endpoint & 0x80 != 0
endpoint_direction(endpoint) == IF (endpoint \div 128) % 2 = 1 THEN "In" ELSE "Out"

\* The direction check every backend's control_transfer starts with:
\* data.direction() is Some(d) and d differs from the setup direction.
control_direction_mismatch(request, data) ==
    data.tag # "None" /\ data.tag # setup_direction(request)

\* buffer.direction() != the endpoint's direction
pipe_direction_mismatch(endpoint, buffer) ==
    buffer.tag # endpoint_direction(endpoint)

(***************************************************************************)
(* State.                                                                  *)
(***************************************************************************)
VARIABLES
    backend,            \* the backend compiled in
    caps,               \* LinuxDeviceHandle.caps
    pipe_timeout,       \* WinUSB PIPE_TRANSFER_TIMEOUT policy per endpoint
    claimed_interfaces, \* the handle's claimed-interface map: a set of <<number, handle>>
    xpc,                \* "idle", "chunks" while a usbfs chunk loop runs, "returned" once the call has returned
    cur,                \* the arguments of the transfer call in progress / last made
    total,              \* the chunk loop's running total
    calls,              \* the backend calls issued for that transfer, in order
    result              \* what the last transfer call returned

\* The handle as the caller holds it: everything but the bookkeeping of one call.
handle_state == <<backend, caps, pipe_timeout, claimed_interfaces>>

NoCall == [op |-> "none", request_type |-> 0, endpoint |-> 0, tag |-> "None", len |-> 0,
           timeout |-> Duration(0, 0)]
ControlCall(request, data, timeout) ==
    [op |-> "control", request_type |-> request.request_type, endpoint |-> 0,
     tag |-> data.tag, len |-> data.len, timeout |-> timeout]
PipeCall(op, endpoint, buffer, timeout) ==
    [op |-> op, request_type |-> 0, endpoint |-> endpoint,
     tag |-> buffer.tag, len |-> buffer.len, timeout |-> timeout]

\* One backend call as logged: which call, on which endpoint, the offset into
\* the caller's buffer, the length and timeout passed, and what came back.
Call(op, ep, off, len, timeout, ret) ==
    [op |-> op, ep |-> ep, off |-> off, len |-> len, timeout |-> timeout,
     ok |-> ret.ok, n |-> ret.n, cause |-> ret.cause,
     status |-> IF "status" \in DOMAIN ret THEN ret.status ELSE "ok"]

\* What a handler hands back: its result, the backend calls it made, and the
\* WinUSB pipe policy it leaves behind.
Out(r, cs, pt) == [result |-> r, calls |-> cs, pipe_timeout |-> pt]

(***************************************************************************)
(* usbfs backend (platform/linux.rs).                                      *)
(***************************************************************************)
\* A conversion that casts without saturating.
linux_duration_to_timeout_wrapping(timeout) == wide_as_u32(as_millis(timeout))

linux_duration_to_timeout(timeout) ==
    IF is_zero(timeout) THEN Zero32
    ELSE wide_as_u32(wide_min(as_millis(timeout), u32_max_wide))

linux_usize_to_u16(value) ==
    IF value > U16_MAX THEN invalid_argument ELSE Ok(value)

linux_usize_to_u32(value) ==
    IF value > U32_MAX THEN invalid_argument ELSE Ok(value)

\* The result of an ioctl: a negative return reads errno.
ioctl_result(ret) ==
    IF ret.ok THEN Ok(ret.n) ELSE from_io_error(NativeCode("usbfs", ret.cause))

linux_control_transfer(request, data, timeout, ret, pt) ==
    IF control_direction_mismatch(request, data) THEN Out(invalid_argument, <<>>, pt)
    ELSE IF IsErr(linux_usize_to_u16(data.len)) THEN Out(linux_usize_to_u16(data.len), <<>>, pt)
    ELSE Out(ioctl_result(ret),
             <<Call("USBDEVFS_CONTROL", 0, 0, linux_usize_to_u16(data.len).n,
                    linux_duration_to_timeout(timeout), ret)>>, pt)

max_bulk_chunk(c) ==
    IF (c \div USBFS_CAP_NO_PACKET_SIZE_LIM) % 2 # 0 THEN U32_MAX ELSE MAX_BULK_BUFFER_LENGTH

\* A submission that asks for the whole limit, whatever is left of the buffer.
chunk_len_whole_limit(limit, len, done) == limit

\* cmp::min(limit, buffer.len() - total)
chunk_len(limit, len, done) == Min(limit, len - done)

\* A chunk loop that answers a failed submission with what was moved before it.
submit_bulk_failed_keeps_total(done, err) == IF done > 0 THEN Ok(done) ELSE err

\* `submit_bulk(..)?` in the chunk loops: the error is the transfer's result,
\* whatever the earlier submissions moved.
submit_bulk_failed(done, err) == err

\* A loop that goes on after a short submission.
chunk_loop_ends_on_full_only(n, chunk, done, len) == ~(done < len)

\* `if read < chunk { break; }` together with the loop condition total < buffer.len()
chunk_loop_ends(n, chunk, done, len) == n < chunk \/ ~(done < len)

(***************************************************************************)
(* WinUSB backend (platform/windows.rs).                                   *)
(***************************************************************************)
windows_duration_to_timeout(timeout) == wide_as_u32(wide_min(as_millis(timeout), u32_max_wide))

\* A conversion that truncates instead of failing.
windows_usize_to_u16_truncating(value) == Ok(as_u16(value))

windows_usize_to_u16(value) ==
    IF value > U16_MAX THEN ErrorNotSupported ELSE Ok(value)

ensure_u32_len(len) ==
    IF len > U32_MAX THEN ErrorNotSupported ELSE Ok(len)

winusb_result(ret) ==
    IF ret.ok THEN Ok(ret.n) ELSE ErrorOs(NativeCode("winusb", ret.cause))

\* maybe_set_timeout_handle: nothing for a zero timeout, else WinUsb_SetPipePolicy.
maybe_set_timeout_handle(endpoint, timeout, policy_ok, pt) ==
    IF is_zero(timeout) THEN Out(Ok(0), <<>>, pt)
    ELSE LET value == windows_duration_to_timeout(timeout)
             call == Call("WinUsb_SetPipePolicy", endpoint, 0, 0, value,
                          [ok |-> policy_ok, n |-> 0, cause |-> IF policy_ok THEN "none" ELSE "stall"])
         IN IF policy_ok
            THEN Out(Ok(0), <<call>>, [pt EXCEPT ![endpoint] = value])
            ELSE Out(ErrorOs(NativeCode("winusb", "stall")), <<call>>, pt)

windows_control_transfer(request, data, timeout, policy_ok, ret, pt) ==
    IF control_direction_mismatch(request, data) THEN Out(ErrorNotSupported, <<>>, pt)
    ELSE IF IsErr(windows_usize_to_u16(data.len)) THEN Out(windows_usize_to_u16(data.len), <<>>, pt)
    ELSE LET set == maybe_set_timeout_handle(0, timeout, policy_ok, pt)
         IN IF IsErr(set.result) THEN set
            ELSE Out(winusb_result(ret),
                     set.calls \o <<Call("WinUsb_ControlTransfer", 0, 0, data.len,
                                         set.pipe_timeout[0], ret)>>,
                     set.pipe_timeout)

windows_pipe_transfer(endpoint, buffer, timeout, policy_ok, ret, pt) ==
    IF pipe_direction_mismatch(endpoint, buffer) THEN Out(ErrorNotSupported, <<>>, pt)
    ELSE IF IsErr(ensure_u32_len(buffer.len)) THEN Out(ensure_u32_len(buffer.len), <<>>, pt)
    ELSE LET set == maybe_set_timeout_handle(endpoint, timeout, policy_ok, pt)
         IN IF IsErr(set.result) THEN set
            ELSE Out(winusb_result(ret),
                     set.calls \o <<Call(IF buffer.tag = "In" THEN "WinUsb_ReadPipe" ELSE "WinUsb_WritePipe",
                                         endpoint, 0, buffer.len, set.pipe_timeout[endpoint], ret)>>,
                     set.pipe_timeout)

(***************************************************************************)
(* The device: its interfaces and the pipes (endpoint addresses) of each.  *)
(***************************************************************************)
NumInterfaces == 2
Interfaces == 0 .. (NumInterfaces - 1)
IfacePipes(ifnum) ==
    IF ifnum = 0 THEN <<129, 1>> ELSE IF ifnum = 1 THEN <<130, 2>> ELSE <<>>

\* An interface handle as the OS hands it out: an identity and the interface
\* it refers to.  Identity 0 is no handle.
Handle(id, ifnum) == [id |-> id, ifnum |-> ifnum]
NoHandle == Handle(0, 0)

(***************************************************************************)
(* IOKit backend (platform/macos.rs).                                      *)
(***************************************************************************)
\* (noDataTimeout, completionTimeout)
timeout_components(timeout) ==
    LET millis == wide_as_u32(wide_min(as_millis(timeout), u32_max_wide))
    IN IF millis = Zero32 THEN <<Zero32, Zero32>> ELSE <<millis, millis>>

io_result(ret) ==
    IF ret.ok THEN Ok(ret.n) ELSE ErrorOs(NativeCode("iokit", ret.cause))

macos_control_transfer(request, data, timeout, ret, pt) ==
    IF control_direction_mismatch(request, data) THEN Out(ErrorNotSupported, <<>>, pt)
    ELSE IF data.len > U16_MAX THEN Out(ErrorNotSupported, <<>>, pt)
    ELSE Out(IF IsErr(io_result(ret)) THEN io_result(ret)
             ELSE IF data.tag = "None" THEN Ok(0) ELSE Ok(ret.n),
             <<Call("DeviceRequestTO", 0, 0, data.len, timeout_components(timeout)[2], ret)>>, pt)

\* get_interface_for_endpoint: the first value the map's iterator yields, which
\* for a HashMap is any of its values; NotSupported when nothing is claimed.
get_interface_for_endpoint(claimed) ==
    IF claimed = {} THEN {NoHandle} ELSE {e[2] : e \in claimed}

\* get_pipe_ref: the 1-based index of the pipe whose address is the endpoint, 0 if none.
get_pipe_ref(iface, endpoint) ==
    LET pipes == IfacePipes(iface.ifnum)
        hits == {i \in 1 .. Len(pipes) : pipes[i] = endpoint}
    IN IF hits = {} THEN 0 ELSE CHOOSE i \in hits : \A j \in hits : i <= j

macos_pipe_transfer(endpoint, buffer, timeout, iface, ret, pt) ==
    IF pipe_direction_mismatch(endpoint, buffer) THEN Out(ErrorNotSupported, <<>>, pt)
    ELSE IF iface = NoHandle THEN Out(ErrorNotSupported, <<>>, pt)
    ELSE LET scan == Call("GetPipeProperties", endpoint, 0, 0, Zero32, [ok |-> TRUE, n |-> get_pipe_ref(iface, endpoint), cause |-> "none"])
         IN IF get_pipe_ref(iface, endpoint) = 0 THEN Out(ErrorNotSupported, <<scan>>, pt)
            ELSE IF buffer.tag = "In"
            THEN Out(io_result(ret),
                     <<scan, Call("ReadPipeTO", endpoint, 0, as_u32(buffer.len),
                                  timeout_components(timeout)[2], ret)>>, pt)
            ELSE IF buffer.len > U32_MAX THEN Out(ErrorNotSupported, <<scan>>, pt)
            ELSE Out(IF IsErr(io_result(ret)) THEN io_result(ret) ELSE Ok(buffer.len),
                     <<scan, Call("WritePipeTO", endpoint, 0, buffer.len,
                                  timeout_components(timeout)[2], ret)>>, pt)

(***************************************************************************)
(* WebUSB backend (platform/wasm.rs).                                      *)
(***************************************************************************)
\* js_to_error on a rejected promise carrying a DOMException
js_to_error(ret) == ErrorOs(NativeCode("webusb", ret.cause))

ensure_status_ok(status) == IF status = "ok" THEN Ok(0) ELSE ErrorUnknown

\* copy_in_data: the bytes copied are the shorter of the view and the target.
copy_in_data(view_len, target_len) == Min(view_len, target_len)

\* build_control_parameters fails on the reserved request type (bits 6..5 = 3).
build_control_parameters(request) ==
    IF (request.request_type \div 32) % 4 = 3 THEN ErrorNotSupported ELSE Ok(0)

wasm_control_transfer(request, data, ret, pt) ==
    IF IsErr(build_control_parameters(request)) THEN Out(ErrorNotSupported, <<>>, pt)
    ELSE IF data.tag = "None"
    THEN Out(IF ret.ok THEN Ok(0) ELSE js_to_error(ret),
             <<Call("controlTransferOut", 0, 0, 0, Zero32, ret)>>, pt)
    ELSE IF data.tag = "In"
    THEN Out(IF ~ret.ok THEN js_to_error(ret)
             ELSE IF IsErr(ensure_status_ok(ret.status)) THEN ErrorUnknown
             ELSE Ok(copy_in_data(ret.n, data.len)),
             <<Call("controlTransferIn", 0, 0, as_u16(data.len), Zero32, ret)>>, pt)
    ELSE Out(IF ~ret.ok THEN js_to_error(ret)
             ELSE IF IsErr(ensure_status_ok(ret.status)) THEN ErrorUnknown
             ELSE Ok(ret.n),
             <<Call("controlTransferOut", 0, 0, data.len, Zero32, ret)>>, pt)

transfer_pipe(endpoint, buffer, ret, pt) ==
    IF pipe_direction_mismatch(endpoint, buffer) THEN Out(ErrorNotSupported, <<>>, pt)
    ELSE IF buffer.tag = "In"
    THEN Out(IF ~ret.ok THEN js_to_error(ret)
             ELSE IF IsErr(ensure_status_ok(ret.status)) THEN ErrorUnknown
             ELSE Ok(copy_in_data(ret.n, buffer.len)),
             <<Call("transferIn", endpoint, 0, as_u32(buffer.len), Zero32, ret)>>, pt)
    ELSE Out(IF ~ret.ok THEN js_to_error(ret)
             ELSE IF IsErr(ensure_status_ok(ret.status)) THEN ErrorUnknown
             ELSE Ok(ret.n),
             <<Call("transferOut", endpoint, 0, buffer.len, Zero32, ret)>>, pt)

(***************************************************************************)
(* The facade (lib.rs): each call forwards to the backend compiled in.     *)
(***************************************************************************)
\* The length the backend call of a control transfer is asked to move.
ControlRequested(b, data) ==
    IF b = "webusb" /\ data.tag = "In" THEN as_u16(data.len) ELSE data.len

\* Whether WinUsb_SetPipePolicy succeeds, where it is called at all.
PolicyOutcomes(b, timeout) == IF b = "winusb" /\ ~is_zero(timeout) THEN BOOLEAN ELSE {TRUE}

BackendReturns(b, len) == IF b = "webusb" THEN WebReturns(len) ELSE Returns(len)

control_transfer(b, request, data, timeout, policy_ok, ret, pt) ==
    CASE b = "usbfs" -> linux_control_transfer(request, data, timeout, ret, pt)
      [] b = "winusb" -> windows_control_transfer(request, data, timeout, policy_ok, ret, pt)
      [] b = "iokit" -> macos_control_transfer(request, data, timeout, ret, pt)
      [] OTHER -> wasm_control_transfer(request, data, ret, pt)

\* bulk_transfer / interrupt_transfer on the backends that make one call.
pipe_transfer(b, endpoint, buffer, timeout, policy_ok, iface, ret, pt) ==
    CASE b = "winusb" -> windows_pipe_transfer(endpoint, buffer, timeout, policy_ok, ret, pt)
      [] b = "iokit" -> macos_pipe_transfer(endpoint, buffer, timeout, iface, ret, pt)
      [] OTHER -> transfer_pipe(endpoint, buffer, ret, pt)

(***************************************************************************)
(* Transfer calls on an open handle.                                       *)
(***************************************************************************)
PipeEndpoints == {0} \cup Endpoints

\* The claimed-interface maps an open IOKit handle can hold when a transfer is made.
ClaimedAtTransfer ==
    {{}, {<<0, Handle(2, 0)>>}, {<<1, Handle(3, 1)>>}, {<<0, Handle(2, 0)>>, <<1, Handle(4, 1)>>}}

InitXfer ==
    /\ backend \in Backends
    /\ caps \in (IF backend = "usbfs" THEN CapsValues ELSE {0})
    /\ pipe_timeout = [e \in PipeEndpoints |-> Zero32]
    /\ claimed_interfaces \in (IF backend = "iokit" THEN ClaimedAtTransfer ELSE {{}})
    /\ xpc = "idle"
    /\ cur = NoCall
    /\ total = 0
    /\ calls = <<>>
    /\ result = NoResult

\* DeviceHandle::control_transfer
ControlTransfer ==
    /\ xpc = "idle"
    /\ \E request \in Requests, data \in ControlDatas, timeout \in Durations :
        \E ret \in BackendReturns(backend, ControlRequested(backend, data)),
           policy_ok \in PolicyOutcomes(backend, timeout) :
            LET out == control_transfer(backend, request, data, timeout, policy_ok, ret, pipe_timeout)
            IN /\ cur' = ControlCall(request, data, timeout)
               /\ result' = out.result
               /\ calls' = out.calls
               /\ pipe_timeout' = out.pipe_timeout
               /\ total' = 0
    /\ xpc' = "returned"
    /\ UNCHANGED <<backend, caps, claimed_interfaces>>

\* DeviceHandle::bulk_transfer / interrupt_transfer on WinUSB, IOKit, WebUSB
PipeTransfer ==
    /\ xpc = "idle"
    /\ backend # "usbfs"
    /\ \E op \in {"bulk", "interrupt"}, endpoint \in Endpoints, buffer \in TransferBuffers,
          timeout \in Durations :
        \E ret \in BackendReturns(backend, buffer.len), policy_ok \in PolicyOutcomes(backend, timeout),
           iface \in get_interface_for_endpoint(claimed_interfaces) :
            LET out == pipe_transfer(backend, endpoint, buffer, timeout, policy_ok, iface, ret, pipe_timeout)
            IN /\ cur' = PipeCall(op, endpoint, buffer, timeout)
               /\ result' = out.result
               /\ calls' = out.calls
               /\ pipe_timeout' = out.pipe_timeout
               /\ total' = 0
    /\ xpc' = "returned"
    /\ UNCHANGED <<backend, caps, claimed_interfaces>>

\* usbfs_data_transfer up to the first submission: the direction check, then
\* transfer_in_chunks / transfer_out_chunks with total = 0.
UsbfsDataTransfer ==
    /\ xpc = "idle"
    /\ backend = "usbfs"
    /\ \E op \in {"bulk", "interrupt"}, endpoint \in Endpoints, buffer \in TransferBuffers,
          timeout \in Durations :
        /\ cur' = PipeCall(op, endpoint, buffer, timeout)
        /\ calls' = <<>>
        /\ total' = 0
        /\ IF pipe_direction_mismatch(endpoint, buffer)
           THEN result' = invalid_argument /\ xpc' = "returned"
           ELSE IF ~(0 < buffer.len)
           THEN result' = Ok(0) /\ xpc' = "returned"
           ELSE result' = NoResult /\ xpc' = "chunks"
    /\ UNCHANGED <<backend, caps, claimed_interfaces, pipe_timeout>>

\* One turn of the chunk loop: submit_bulk on the next chunk, add what it moved,
\* stop on an error, on a short submission or when the buffer is done.
SubmitBulk ==
    /\ xpc = "chunks"
    /\ LET limit == max_bulk_chunk(caps)
           chunk == chunk_len(limit, cur.len, total)
       IN IF IsErr(linux_usize_to_u32(chunk))
          THEN /\ result' = linux_usize_to_u32(chunk)
               /\ xpc' = "returned"
               /\ UNCHANGED <<calls, total>>
          ELSE \E ret \in Returns(chunk) :
               /\ calls' = Append(calls, Call("USBDEVFS_BULK", cur.endpoint, total, chunk,
                                              linux_duration_to_timeout(cur.timeout), ret))
               /\ IF IsErr(ioctl_result(ret))
                  THEN /\ result' = submit_bulk_failed(total, ioctl_result(ret))
                       /\ xpc' = "returned"
                       /\ total' = total
                  ELSE /\ total' = total + ret.n
                       /\ IF chunk_loop_ends(ret.n, chunk, total', cur.len)
                          THEN result' = Ok(total') /\ xpc' = "returned"
                          ELSE result' = NoResult /\ xpc' = "chunks"
    /\ UNCHANGED <<backend, caps, claimed_interfaces, pipe_timeout, cur>>

\* The call is over: the caller has its Result and the handle is free for the
\* next call (the native backends block, so calls on one thread do not overlap).
TransferReturns ==
    /\ xpc = "returned"
    /\ xpc' = "idle"
    /\ cur' = NoCall
    /\ result' = NoResult
    /\ calls' = <<>>
    /\ total' = 0
    /\ UNCHANGED <<backend, caps, claimed_interfaces, pipe_timeout>>



(***************************************************************************)
(* The claimed-interface map of a WinUSB / IOKit handle: claim_interface,  *)
(* release_interface, set_interface_alt_setting from concurrent threads,   *)
(* and the handle's drop.                                                  *)
(***************************************************************************)
NumThreads == 2
MaxHandles == 4
Threads == 1 .. NumThreads
HandleIds == 1 .. MaxHandles
\* Interface numbers a caller passes: the device's, and one it does not have.
InterfaceArgs == 0 .. NumInterfaces
ClaimBackends == {"winusb", "iokit"}

VARIABLES
    lock,        \* Mutex around claimed_interfaces: the thread holding it, 0 when free
    tpc,         \* where each thread is: "idle", "claim_scan", "release_free", "alt_use"
    targ,        \* the interface number each thread's call was given
    theld,       \* the interface handle a thread took out of the map
    last,        \* the last call that returned: its operation, argument and result
    next_id,     \* identity of the next handle the OS hands out
    free_count,  \* per handle identity, how often it was freed (WinUsb_Free / Release)
    dpc,         \* Drop: "live", "ifaces", "device_closed", "dropped"
    drop_left,   \* Drop: the map entries its loop has not visited yet
    drop_log     \* Drop: the OS calls it made, in order

cvars == <<lock, tpc, targ, theld, last, next_id, free_count, dpc, drop_left, drop_log>>

\* WindowsDeviceHandle.interface: the handle WinUsb_Initialize returned, which
\* is the device's first interface.  On IOKit identity 1 is device_interface.
primary == Handle(1, 0)

\* A lock that is handed out while held.
mutex_lock_unguarded(l) == TRUE

\* std::sync::Mutex::lock returns once no other thread holds the guard.
mutex_lock_ready(l) == l = 0

\* A lookup that finds no key.
contains_key_never(m, k) == FALSE

\* HashMap<u8, handle> as a set of <<key, value>> pairs.
contains_key(m, k) == \E e \in m : e[1] = k
hm_get(m, k) == IF contains_key(m, k) THEN (CHOOSE e \in m : e[1] = k)[2] ELSE NoHandle
hm_insert(m, k, v) == {e \in m : e[1] # k} \cup {<<k, v>>}
\* A remove that hands out the value and leaves the entry.
hm_remove_keeps_entry(m, k) == m

hm_remove(m, k) == {e \in m : e[1] # k}

NoLast == [op |-> "none", ifnum |-> 0, result |-> NoResult]
Last(op, n, r) == [op |-> op, ifnum |-> n, result |-> r]

Freed(fc, ids) == [i \in HandleIds |-> IF i \in ids THEN fc[i] + 1 ELSE fc[i]]

InitClaimVars ==
    /\ lock = 0
    /\ tpc = [t \in Threads |-> "idle"]
    /\ targ = [t \in Threads |-> 0]
    /\ theld = [t \in Threads |-> NoHandle]
    /\ last = NoLast
    /\ next_id = 2
    /\ free_count = [i \in HandleIds |-> 0]
    /\ dpc = "live"
    /\ drop_left = {}
    /\ drop_log = <<>>

\* The scan of claim_interface after the contains_key check.  On WinUSB: the
\* primary handle if its interface number matches, else the associated
\* interfaces in index order, each a new handle that is kept on a match and
\* freed otherwise.  On IOKit: the interface iterator's services in order,
\* each a new interface pointer that is opened and kept on a match and
\* released otherwise.  The scan yields the handle to insert (NoHandle when
\* nothing matched), the new handles it freed again, and how many identities
\* it used up.
windows_claim_scan(n, match_ok, id0) ==
    IF match_ok /\ primary.ifnum = n
    THEN [found |-> primary, temps |-> {}, used |-> 0, result |-> Ok(0)]
    ELSE IF match_ok /\ n \in 1 .. (NumInterfaces - 1)
    THEN [found |-> Handle(id0 + n - 1, n),
          temps |-> {id0 + k - 1 : k \in 1 .. (n - 1)},
          used |-> n, result |-> Ok(0)]
    ELSE [found |-> NoHandle,
          temps |-> {id0 + k - 1 : k \in 1 .. (NumInterfaces - 1)},
          used |-> NumInterfaces - 1, result |-> ErrorNotSupported]

macos_claim_scan(n, iter_ok, match_ok, id0) ==
    IF ~iter_ok
    THEN [found |-> NoHandle, temps |-> {}, used |-> 0,
          result |-> ErrorOs(NativeCode("iokit", "stall"))]
    ELSE IF match_ok /\ n \in Interfaces
    THEN [found |-> Handle(id0 + n, n),
          temps |-> {id0 + k : k \in 0 .. (n - 1)},
          used |-> n + 1, result |-> Ok(0)]
    ELSE [found |-> NoHandle,
          temps |-> {id0 + k : k \in 0 .. (NumInterfaces - 1)},
          used |-> NumInterfaces, result |-> ErrorNotSupported]

claim_scan(b, n, iter_ok, match_ok, id0) ==
    IF b = "winusb" THEN windows_claim_scan(n, match_ok, id0)
    ELSE macos_claim_scan(n, iter_ok, match_ok, id0)

\* A release that frees whatever it removed.
release_frees_any(b, h) == {h.id}

\* release_interface frees what it removed, except the WinUSB primary handle.
release_frees(b, h) == IF b = "winusb" /\ h = primary THEN {} ELSE {h.id}

\* claim_interface: lock, then the contains_key early return.
ClaimBegin(t) ==
    /\ dpc = "live" /\ tpc[t] = "idle"
    /\ next_id + NumInterfaces <= MaxHandles + 1
    /\ mutex_lock_ready(lock)
    /\ \E n \in InterfaceArgs :
        /\ targ' = [targ EXCEPT ![t] = n]
        /\ IF contains_key(claimed_interfaces, n)
           THEN /\ last' = Last("claim", n, Ok(0))
                /\ UNCHANGED <<lock, tpc>>
           ELSE /\ lock' = t
                /\ tpc' = [tpc EXCEPT ![t] = "claim_scan"]
                /\ UNCHANGED last
    /\ UNCHANGED <<claimed_interfaces, theld, next_id, free_count, dpc, drop_left, drop_log>>

\* claim_interface: the scan, the insert on a match, the return (guard dropped).
ClaimScan(t) ==
    /\ tpc[t] = "claim_scan"
    /\ \E iter_ok \in (IF backend = "iokit" THEN BOOLEAN ELSE {TRUE}), match_ok \in BOOLEAN :
        LET scan == claim_scan(backend, targ[t], iter_ok, match_ok, next_id)
        IN /\ claimed_interfaces' =
                  IF scan.found = NoHandle THEN claimed_interfaces
                  ELSE hm_insert(claimed_interfaces, targ[t], scan.found)
           /\ free_count' = Freed(free_count, scan.temps)
           /\ next_id' = next_id + scan.used
           /\ last' = Last("claim", targ[t], scan.result)
    /\ lock' = 0
    /\ tpc' = [tpc EXCEPT ![t] = "idle"]
    /\ UNCHANGED <<targ, theld, dpc, drop_left, drop_log>>

\* release_interface: lock, guard.remove; NotSupported when the key is absent.
ReleaseBegin(t) ==
    /\ dpc = "live" /\ tpc[t] = "idle"
    /\ mutex_lock_ready(lock)
    /\ \E n \in InterfaceArgs :
        /\ targ' = [targ EXCEPT ![t] = n]
        /\ IF contains_key(claimed_interfaces, n)
           THEN /\ theld' = [theld EXCEPT ![t] = hm_get(claimed_interfaces, n)]
                /\ claimed_interfaces' = hm_remove(claimed_interfaces, n)
                /\ lock' = t
                /\ tpc' = [tpc EXCEPT ![t] = "release_free"]
                /\ UNCHANGED last
           ELSE /\ last' = Last("release", n, ErrorNotSupported)
                /\ UNCHANGED <<claimed_interfaces, theld, lock, tpc>>
    /\ UNCHANGED <<next_id, free_count, dpc, drop_left, drop_log>>

\* release_interface: WinUsb_Free / USBInterfaceClose + Release, then the return.
ReleaseFree(t) ==
    /\ tpc[t] = "release_free"
    /\ free_count' = Freed(free_count, release_frees(backend, theld[t]))
    /\ last' = Last("release", targ[t], Ok(0))
    /\ theld' = [theld EXCEPT ![t] = NoHandle]
    /\ lock' = 0
    /\ tpc' = [tpc EXCEPT ![t] = "idle"]
    /\ UNCHANGED <<claimed_interfaces, targ, next_id, dpc, drop_left, drop_log>>

\* set_interface_alt_setting: lock, guard.get; NotSupported when the key is absent.
AltBegin(t) ==
    /\ dpc = "live" /\ tpc[t] = "idle"
    /\ mutex_lock_ready(lock)
    /\ \E n \in InterfaceArgs :
        /\ targ' = [targ EXCEPT ![t] = n]
        /\ IF contains_key(claimed_interfaces, n)
           THEN /\ theld' = [theld EXCEPT ![t] = hm_get(claimed_interfaces, n)]
                /\ lock' = t
                /\ tpc' = [tpc EXCEPT ![t] = "alt_use"]
                /\ UNCHANGED last
           ELSE /\ last' = Last("alt", n, ErrorNotSupported)
                /\ UNCHANGED <<theld, lock, tpc>>
    /\ UNCHANGED <<claimed_interfaces, next_id, free_count, dpc, drop_left, drop_log>>

\* set_interface_alt_setting: the OS call on the handle, then the return.
AltUse(t) ==
    /\ tpc[t] = "alt_use"
    /\ \E ok \in BOOLEAN :
        last' = Last("alt", targ[t], IF ok THEN Ok(0) ELSE ErrorOs(NativeCode(backend, "stall")))
    /\ theld' = [theld EXCEPT ![t] = NoHandle]
    /\ lock' = 0
    /\ tpc' = [tpc EXCEPT ![t] = "idle"]
    /\ UNCHANGED <<claimed_interfaces, targ, next_id, free_count, dpc, drop_left, drop_log>>

(***************************************************************************)
(* impl Drop for WindowsDeviceHandle / MacosDeviceHandle.                  *)
(***************************************************************************)
OsCall(call, id) == [call |-> call, id |-> id]

\* A drop that closes the device before it visits the map.
drop_leg_device_first(d, left) ==
    IF d = "ifaces" THEN "device"
    ELSE IF d = "device_closed" /\ left # {} THEN "iface"
    ELSE IF d = "device_closed" THEN "os_handle"
    ELSE "none"

\* Which leg of drop runs next: the loop over the map's entries while any is
\* left, then the device / primary interface, then the OS handle.
drop_leg(d, left) ==
    IF d = "ifaces" /\ left # {} THEN "iface"
    ELSE IF d = "ifaces" THEN "device"
    ELSE IF d = "device_closed" THEN "os_handle"
    ELSE "none"

\* The OS calls drop makes for one map entry.
drop_iface_calls(b, h) ==
    IF b = "winusb"
    THEN (IF h # primary THEN <<OsCall("WinUsb_Free", h.id)>> ELSE <<>>)
    ELSE <<OsCall("USBInterfaceClose", h.id), OsCall("Release", h.id)>>

\* drop needs &mut self: no call on the handle is in progress.
DropBegin ==
    /\ dpc = "live"
    /\ \A t \in Threads : tpc[t] = "idle"
    /\ mutex_lock_ready(lock)
    /\ dpc' = "ifaces"
    /\ drop_left' = claimed_interfaces
    /\ UNCHANGED <<claimed_interfaces, lock, tpc, targ, theld, last, next_id, free_count, drop_log>>

\* One turn of `for (_, handle) in guard.iter()`, in the map's iteration order.
DropIface ==
    /\ drop_leg(dpc, drop_left) = "iface"
    /\ \E e \in drop_left :
        /\ drop_left' = drop_left \ {e}
        /\ drop_log' = drop_log \o drop_iface_calls(backend, e[2])
        /\ free_count' = Freed(free_count, release_frees(backend, e[2]))
    /\ UNCHANGED <<claimed_interfaces, lock, tpc, targ, theld, last, next_id, dpc>>

\* WinUsb_Free(self.interface) / USBDeviceClose(device_interface)
DropDevice ==
    /\ drop_leg(dpc, drop_left) = "device"
    /\ dpc' = "device_closed"
    /\ drop_log' = Append(drop_log,
                          IF backend = "winusb" THEN OsCall("WinUsb_Free", primary.id)
                          ELSE OsCall("USBDeviceClose", primary.id))
    /\ free_count' = IF backend = "winusb" THEN Freed(free_count, {primary.id}) ELSE free_count
    /\ UNCHANGED <<claimed_interfaces, lock, tpc, targ, theld, last, next_id, drop_left>>

\* CloseHandle(self.file) / Release(device_interface)
DropOsHandle ==
    /\ drop_leg(dpc, drop_left) = "os_handle"
    /\ dpc' = "dropped"
    /\ drop_log' = Append(drop_log,
                          IF backend = "winusb" THEN OsCall("CloseHandle", 0)
                          ELSE OsCall("Release", primary.id))
    /\ free_count' = IF backend = "iokit" THEN Freed(free_count, {primary.id}) ELSE free_count
    /\ UNCHANGED <<claimed_interfaces, lock, tpc, targ, theld, last, next_id, drop_left>>

(***************************************************************************)
(* open: what each backend acquires from the OS, what it gives back on its *)
(* failure paths, and what dropping the resulting handle gives back.       *)
(***************************************************************************)
NumDevices == 2
MaxOpens == 2
Devices == 1 .. NumDevices
\* usbfs: "fd" (the device node's File).  WinUSB: "file" (CreateFileW's
\* HANDLE), "interface" (WinUsb_Initialize's handle).  IOKit: "ref" (AddRef on
\* device_interface), "seize" (USBDeviceOpenSeize).  WebUSB: "opened"
\* (UsbDevice.open), "claim" (the interfaces claimed by ensure_ready).
ResourceKinds == {"fd", "file", "interface", "ref", "seize", "opened", "claim"}

VARIABLES
    held,         \* per device and kind, how many OS resources this process holds
    dev_handles,  \* per device, how many DeviceHandle values are alive
    open_call     \* the last open call: its device, acquisitions, releases, result

ovars == <<held, dev_handles, open_call>>

\* An open call's outcome; os is what the operating system was asked and
\* what it answered, where the model follows that.
OpenOutcome(acquired, released, r, mode, c, os) ==
    [acquired |-> acquired, released |-> released, result |-> r, mode |-> mode, caps |-> c,
     os |-> os]
NoOs == [attempts |-> <<>>, caps_ok |-> TRUE]
\* One OpenOptions::open of the device node.
Attempt(mode, answer) == [mode |-> mode, answer |-> answer]

OpenErrno(cause) == IF cause = "denied" THEN 13 ELSE 2

\* An open that falls back to read-only after every failed read/write attempt.
linux_open_retry_always(rw, ro, caps_ok, c) ==
    LET granted == IF caps_ok THEN c ELSE 0
    IN IF rw = "ok"
       THEN OpenOutcome(<<"fd">>, <<>>, Ok(0), "rw", granted,
                        [attempts |-> <<Attempt("rw", rw)>>, caps_ok |-> caps_ok])
       ELSE IF ro = "ok"
       THEN OpenOutcome(<<"fd">>, <<>>, Ok(0), "ro", granted,
                        [attempts |-> <<Attempt("rw", rw), Attempt("ro", ro)>>,
                         caps_ok |-> caps_ok])
       ELSE OpenOutcome(<<>>, <<>>, from_io_error(OpenErrno(ro)), "none", 0,
                        [attempts |-> <<Attempt("rw", rw), Attempt("ro", ro)>>,
                         caps_ok |-> TRUE])

\* linux::open: read/write first, read-only when that is refused for lack of
\* permission (the retry's error is returned by `?`); the capabilities
\* ioctl's failure is ignored (caps stays 0).
linux_open(rw, ro, caps_ok, c) ==
    LET granted == IF caps_ok THEN c ELSE 0
    IN IF rw = "ok"
       THEN OpenOutcome(<<"fd">>, <<>>, Ok(0), "rw", granted,
                        [attempts |-> <<Attempt("rw", rw)>>, caps_ok |-> caps_ok])
       ELSE IF rw = "denied"
       THEN (IF ro = "ok"
             THEN OpenOutcome(<<"fd">>, <<>>, Ok(0), "ro", granted,
                              [attempts |-> <<Attempt("rw", rw), Attempt("ro", ro)>>,
                               caps_ok |-> caps_ok])
             ELSE OpenOutcome(<<>>, <<>>, from_io_error(OpenErrno(ro)), "none", 0,
                              [attempts |-> <<Attempt("rw", rw), Attempt("ro", ro)>>,
                               caps_ok |-> TRUE]))
       ELSE OpenOutcome(<<>>, <<>>, from_io_error(OpenErrno(rw)), "none", 0,
                        [attempts |-> <<Attempt("rw", rw)>>, caps_ok |-> TRUE])

\* windows::open: CreateFileW, the INVALID_HANDLE_VALUE check, WinUsb_Initialize.
windows_open(create, init_ok) ==
    IF create # "ok"
    THEN OpenOutcome(<<>>, <<>>, ErrorOs(NativeCode("winusb", "disconnected")), "none", 0, NoOs)
    ELSE IF ~init_ok
    THEN OpenOutcome(<<"file">>, <<>>, ErrorOs(NativeCode("winusb", "stall")), "none", 0, NoOs)
    ELSE OpenOutcome(<<"file", "interface">>, <<>>, Ok(0), "rw", 0, NoOs)

\* macos::open: AddRef, USBDeviceOpenSeize, Release when the seize fails.
macos_open(seize_ok) ==
    IF ~seize_ok
    THEN OpenOutcome(<<"ref">>, <<"ref">>, ErrorOs(NativeCode("iokit", "stall")), "none", 0, NoOs)
    ELSE OpenOutcome(<<"ref", "seize">>, <<>>, Ok(0), "rw", 0, NoOs)

\* One call of the browser's UsbDevice made by ensure_ready and its answer.
WebCall(op, arg, answer) == [mode |-> op, arg |-> arg, answer |-> answer]

\* What claimInterface can answer: success, the DOMException of an interface
\* that is already claimed, another DOMException.
ClaimAnswers == {"ok", "InvalidStateError", "NetworkError"}

\* The claim answers of the interfaces of the active configuration, in order.
MaxWebInterfaces == 2
ClaimRuns == UNION {[1..n -> ClaimAnswers] : n \in 0..MaxWebInterfaces}

\* An is_already_claimed that recognises no exception.
is_already_claimed_never(name) == FALSE

\* is_already_claimed: the DOMException's name is InvalidStateError.
is_already_claimed(name) == name = "InvalidStateError"

\* The interface loop of ensure_ready: claim interface i-1 and those after
\* it; a failure that is not is_already_claimed stops the loop.
RECURSIVE claim_interfaces(_, _, _)
claim_interfaces(claims, i, done) ==
    IF i > Len(claims) THEN [calls |-> done, result |-> Ok(0)]
    ELSE LET call == WebCall("claimInterface", i - 1, claims[i])
         IN IF claims[i] # "ok" /\ ~is_already_claimed(claims[i])
            THEN [calls |-> Append(done, call), result |-> js_to_error([cause |-> "stall"])]
            ELSE claim_interfaces(claims, i + 1, Append(done, call))

\* wasm::open = ensure_ready: open unless opened, select the first
\* configuration unless one is selected, claim the interfaces of the active
\* configuration in order.
wasm_open(opened, open_ok, configured, configs, select_ok, claims) ==
    LET got == IF opened THEN <<>> ELSE <<"opened">>
        opening == IF opened THEN <<>>
                   ELSE <<WebCall("open", 0, IF open_ok THEN "ok" ELSE "NetworkError")>>
        selecting == IF configured THEN <<>>
                     ELSE <<WebCall("selectConfiguration", 1,
                                    IF select_ok THEN "ok" ELSE "NetworkError")>>
        loop == claim_interfaces(claims, 1, opening \o selecting)
        claimed == IF \E i \in DOMAIN loop.calls :
                          loop.calls[i].mode = "claimInterface" /\ loop.calls[i].answer = "ok"
                   THEN <<"claim">> ELSE <<>>
        Os(log) == [attempts |-> log, caps_ok |-> TRUE, interfaces |-> Len(claims)]
    IN IF ~opened /\ ~open_ok
       THEN OpenOutcome(<<>>, <<>>, js_to_error([cause |-> "disconnected"]), "none", 0,
                        Os(opening))
       ELSE IF ~configured /\ configs = 0
       THEN OpenOutcome(got, <<>>, ErrorNotSupported, "none", 0, Os(opening))
       ELSE IF ~configured /\ ~select_ok
       THEN OpenOutcome(got, <<>>, js_to_error([cause |-> "stall"]), "none", 0,
                        Os(opening \o selecting))
       ELSE IF IsErr(loop.result)
       THEN OpenOutcome(got \o claimed, <<>>, loop.result, "none", 0, Os(loop.calls))
       ELSE OpenOutcome(got \o claimed, <<>>, Ok(0), "rw", 0, Os(loop.calls))

\* The outcomes open can have on a backend, over what the OS may answer.
open_outcomes(b, opened) ==
    IF b = "usbfs"
    THEN {linux_open(rw, ro, caps_ok, c) :
            rw \in {"ok", "denied", "missing"}, ro \in {"ok", "denied", "missing"},
            caps_ok \in BOOLEAN, c \in CapsValues}
    ELSE IF b = "winusb"
    THEN {windows_open(create, init_ok) : create \in {"ok", "err"}, init_ok \in BOOLEAN}
    ELSE IF b = "iokit"
    THEN {macos_open(seize_ok) : seize_ok \in BOOLEAN}
    ELSE {wasm_open(opened, open_ok, configured, configs, select_ok, claims) :
            open_ok \in BOOLEAN, configured \in BOOLEAN, configs \in {0, 1},
            select_ok \in BOOLEAN, claims \in ClaimRuns}

\* What dropping a DeviceHandle gives back: the File; WinUsb_Free and
\* CloseHandle; USBDeviceClose and Release; nothing on WebUSB.
drop_releases(b) ==
    IF b = "usbfs" THEN <<"fd">>
    ELSE IF b = "winusb" THEN <<"interface", "file">>
    ELSE IF b = "iokit" THEN <<"seize", "ref">>
    ELSE <<>>

Count(seq, k) == Cardinality({i \in DOMAIN seq : seq[i] = k})

NoOpenCall == [dev |-> 0, acquired |-> <<>>, released |-> <<>>, result |-> NoResult,
               mode |-> "none", caps |-> 0, os |-> NoOs]

InitOpenVars ==
    /\ held = [d \in Devices |-> [k \in ResourceKinds |-> 0]]
    /\ dev_handles = [d \in Devices |-> 0]
    /\ open_call = NoOpenCall

\* Device::open
Open(d) ==
    /\ dev_handles[d] < MaxOpens
    /\ \A k \in ResourceKinds : held[d][k] < MaxOpens
    /\ \E o \in open_outcomes(backend, held[d]["opened"] > 0) :
        /\ held' = [held EXCEPT ![d] =
                      [k \in ResourceKinds |->
                          held[d][k] + Count(o.acquired, k) - Count(o.released, k)]]
        /\ dev_handles' = [dev_handles EXCEPT ![d] = IF IsOk(o.result) THEN @ + 1 ELSE @]
        /\ open_call' = [dev |-> d, acquired |-> o.acquired, released |-> o.released,
                         result |-> o.result, mode |-> o.mode, caps |-> o.caps, os |-> o.os]
    /\ UNCHANGED backend

\* A DeviceHandle of the device goes out of scope.
DropHandle(d) ==
    /\ dev_handles[d] > 0
    /\ held' = [held EXCEPT ![d] =
                  [k \in ResourceKinds |-> held[d][k] - Count(drop_releases(backend), k)]]
    /\ dev_handles' = [dev_handles EXCEPT ![d] = @ - 1]
    /\ UNCHANGED <<backend, open_call>>

(***************************************************************************)
(* Calls of the functions that depend on their arguments alone: the call   *)
(* made and what it returned.                                              *)
(***************************************************************************)
VARIABLES
    pcall,   \* the function called and its argument, NoPureCall between calls
    pret     \* what the call returned

pvars == <<pcall, pret>>

NoPureCall == [fn |-> "none", arg |-> <<>>]
PureCall(fn, arg) == [fn |-> fn, arg |-> arg]

InitPureVars ==
    /\ pcall = NoPureCall
    /\ pret = <<>>

\* The caller takes the value and goes on.
PureReturns ==
    /\ pcall # NoPureCall
    /\ pcall' = NoPureCall
    /\ pret' = <<>>

(***************************************************************************)
(* Timeout conversion of the three native backends.                        *)
(***************************************************************************)
\* Durations around the points where the millisecond count reaches 1, 2^31
\* and 2^32 - 1 (4294967.295 s), and far beyond.
TimeoutSecs == {0, 1, 59, 2147483, 2147484, 3221225, 3221226, 4294966, 4294967, 4294968,
                5000000, 2000000000}
TimeoutNanos == {0, 1, 999999, 1000000, 1999999, 294999999, 295000000, 296000000,
                 471999999, 472000000, 647999999, 648000000, 999999999}
TimeoutDurations == {Duration(secs, nanos) : secs \in TimeoutSecs, nanos \in TimeoutNanos}

\* duration_to_timeout (linux.rs, windows.rs) and timeout_components (macos.rs)
DurationToTimeout ==
    /\ pcall = NoPureCall
    /\ \E d \in TimeoutDurations :
        /\ pcall' = PureCall("duration_to_timeout", d)
        /\ pret' = [usbfs |-> linux_duration_to_timeout(d),
                    winusb |-> windows_duration_to_timeout(d),
                    iokit |-> timeout_components(d)]

(***************************************************************************)
(* The sysfs attribute parser (platform/linux.rs).  A string is a sequence *)
(* of one-character strings.                                               *)
(***************************************************************************)
MaxAttrLen == 4
AttrChars == {"0", "1", "a", "A", "x", "X", "g", "+"}
Whitespace == {" ", "\n"}

RECURSIVE SeqsUpTo(_, _)
SeqsUpTo(S, n) ==
    IF n = 0 THEN {<<>>}
    ELSE LET shorter == SeqsUpTo(S, n - 1)
         IN shorter \cup {Append(s, c) : s \in {t \in shorter : Len(t) = n - 1}, c \in S}

\* Attribute file contents: text of up to MaxAttrLen characters, bare or with
\* whitespace before it, after it (the newline sysfs appends), or both.
AttrValues ==
    {lead \o core \o trail :
        lead \in {<<>>, <<" ">>}, core \in SeqsUpTo(AttrChars, MaxAttrLen),
        trail \in {<<>>, <<"\n">>}}

\* char::to_digit(radix): -1 where the character is no digit of the radix
to_digit(c, radix) ==
    LET v == CASE c = "0" -> 0 [] c = "1" -> 1 [] c \in {"a", "A"} -> 10 [] OTHER -> 0 - 1
    IN IF v < radix THEN v ELSE 0 - 1

RECURSIVE trim_start(_)
trim_start(s) == IF s # <<>> /\ s[1] \in Whitespace THEN trim_start(Tail(s)) ELSE s
RECURSIVE trim_end(_)
trim_end(s) ==
    IF s # <<>> /\ s[Len(s)] \in Whitespace THEN trim_end(SubSeq(s, 1, Len(s) - 1)) ELSE s
\* str::trim
trim(s) == trim_end(trim_start(s))

\* str::strip_prefix: the rest after the prefix, or "none"
strip_prefix(s, prefix) ==
    IF Len(s) >= Len(prefix) /\ SubSeq(s, 1, Len(prefix)) = prefix
    THEN SubSeq(s, Len(prefix) + 1, Len(s))
    ELSE "none"

\* The digit loop of from_str_radix: acc * radix + digit for each character,
\* an error on a non-digit or once the value passes the type's maximum.
RECURSIVE parse_digits(_, _, _, _)
parse_digits(s, radix, max, acc) ==
    IF s = <<>> THEN Ok(acc)
    ELSE IF to_digit(s[1], radix) < 0 THEN ErrorUnknown
    ELSE IF acc * radix + to_digit(s[1], radix) > max THEN ErrorUnknown
    ELSE parse_digits(Tail(s), radix, max, acc * radix + to_digit(s[1], radix))

\* u8::from_str_radix / u16::from_str_radix (max 255 / 65535): empty input and
\* a lone sign are errors, one leading "+" is accepted.
from_str_radix(s, radix, max) ==
    IF s = <<>> THEN ErrorUnknown
    ELSE IF s[1] = "+" THEN (IF Len(s) = 1 THEN ErrorUnknown ELSE parse_digits(Tail(s), radix, max, 0))
    ELSE parse_digits(s, radix, max, 0)

\* A parser that tries hexadecimal before decimal.
parse_numeric_auto_hex_first(value, max) ==
    LET trimmed == trim(value)
        without_prefix ==
            IF strip_prefix(trimmed, <<"0", "x">>) # "none" THEN strip_prefix(trimmed, <<"0", "x">>)
            ELSE IF strip_prefix(trimmed, <<"0", "X">>) # "none" THEN strip_prefix(trimmed, <<"0", "X">>)
            ELSE trimmed
    IN IF IsOk(from_str_radix(without_prefix, 16, max)) THEN from_str_radix(without_prefix, 16, max)
       ELSE from_str_radix(trimmed, 10, max)

parse_numeric_auto(value, max) ==
    LET trimmed == trim(value)
        without_prefix ==
            IF strip_prefix(trimmed, <<"0", "x">>) # "none" THEN strip_prefix(trimmed, <<"0", "x">>)
            ELSE IF strip_prefix(trimmed, <<"0", "X">>) # "none" THEN strip_prefix(trimmed, <<"0", "X">>)
            ELSE trimmed
    IN IF IsOk(from_str_radix(trimmed, 10, max)) THEN from_str_radix(trimmed, 10, max)
       ELSE IF IsOk(from_str_radix(without_prefix, 16, max))
       THEN from_str_radix(without_prefix, 16, max)
       ELSE ErrorUnknown

parse_u8_auto(value) == parse_numeric_auto(value, 255)
parse_u16_auto(value) == parse_numeric_auto(value, U16_MAX)

\* parse_u8_auto / parse_u16_auto on the contents of an attribute file
ParseNumericAuto ==
    /\ pcall = NoPureCall
    /\ \E value \in AttrValues :
        /\ pcall' = PureCall("parse_numeric_auto", value)
        /\ pret' = [u8 |-> parse_u8_auto(value), u16 |-> parse_u16_auto(value)]

(***************************************************************************)
(* SLIP framing of the ESP32 serial bridge (support/esp32.rs).  Bytes are  *)
(* integers 0..255.                                                        *)
(***************************************************************************)
END == 192
ESC == 219
ESC_END == 220
ESC_ESC == 221
\* let mut buf = [0u8; 64]
SLIP_READ_LEN == 64

MaxPayloadLen == 3
MaxStreamLen == 4
\* Payloads handed to send_slip_frame: all short ones over the two bytes that
\* are escaped and two that are not, and a long one whose frame has its ESC
\* as the 64th byte.
PayloadBytes == {END, ESC, ESC_END, 1}
LongPayload == [i \in 1 .. 64 |-> IF i = 63 THEN END ELSE 1]
SlipPayloads == SeqsUpTo(PayloadBytes, MaxPayloadLen) \cup {LongPayload}
\* Byte streams a device may send by itself.
StreamBytes == {END, ESC, ESC_END, ESC_ESC, 1}
SlipStreams == SeqsUpTo(StreamBytes, MaxStreamLen)

VARIABLES
    spc,           \* "idle", "receiving" (inside receive_slip_frame), "returned"
    slip_payload,  \* the payload given to send_slip_frame, "none" if the device sent by itself
    tx,            \* what send_slip_frame returned
    wire,          \* the bytes the device has for the host, from the first
    rx_pos,        \* how many of them the reads so far have taken
    dec,           \* receive_slip_frame's locals: packet, escaped, started
    rx,            \* what receive_slip_frame returned
    read_marks     \* whether some read returned zero bytes / ended right after an ESC

svars == <<spc, slip_payload, tx, wire, rx_pos, dec, rx, read_marks>>

\* Ok(packet)
OkBytes(bytes) == [tag |-> "Ok", bytes |-> bytes]

RECURSIVE slip_escape_end_only(_)
\* An encoder that leaves ESC bytes of the payload as they are.
slip_escape_end_only(payload) ==
    IF payload = <<>> THEN <<>>
    ELSE (IF payload[1] = END THEN <<ESC, ESC_END>> ELSE <<payload[1]>>)
             \o slip_escape_end_only(Tail(payload))

RECURSIVE slip_escape(_)
\* The for loop of send_slip_frame over the payload.
slip_escape(payload) ==
    IF payload = <<>> THEN <<>>
    ELSE (IF payload[1] = END THEN <<ESC, ESC_END>>
          ELSE IF payload[1] = ESC THEN <<ESC, ESC_ESC>>
          ELSE <<payload[1]>>) \o slip_escape(Tail(payload))

\* The frame send_slip_frame writes.
slip_frame(payload) == <<END>> \o slip_escape(payload) \o <<END>>

\* The locals of receive_slip_frame as declared before its loop.
DecoderStart == [packet |-> <<>>, escaped |-> FALSE, started |-> FALSE]

\* A decoder whose escape flag does not outlive a read.
loop_entry_escape_reset(st) == [st EXCEPT !.escaped = FALSE]

\* The locals as one turn of `loop` finds them: what the turn before left.
loop_entry(st) == st

\* One turn of `for &b in &buf[..len]`: the locals after it, and the value
\* returned if the turn returns.
slip_byte(st, b) ==
    IF b = END
    THEN (IF st.started
          THEN (IF st.packet # <<>>
                THEN [dec |-> st, done |-> TRUE, result |-> OkBytes(st.packet)]
                ELSE [dec |-> st, done |-> FALSE, result |-> NoResult])
          ELSE [dec |-> [st EXCEPT !.started = TRUE], done |-> FALSE, result |-> NoResult])
    ELSE IF b = ESC
    THEN [dec |-> [st EXCEPT !.escaped = TRUE], done |-> FALSE, result |-> NoResult]
    ELSE IF st.escaped
    THEN (IF b = ESC_END
          THEN [dec |-> [st EXCEPT !.packet = Append(@, END), !.escaped = FALSE],
                done |-> FALSE, result |-> NoResult]
          ELSE IF b = ESC_ESC
          THEN [dec |-> [st EXCEPT !.packet = Append(@, ESC), !.escaped = FALSE],
                done |-> FALSE, result |-> NoResult]
          ELSE [dec |-> st, done |-> TRUE, result |-> ErrorUnknown])
    ELSE IF st.started
    THEN [dec |-> [st EXCEPT !.packet = Append(@, b)], done |-> FALSE, result |-> NoResult]
    ELSE [dec |-> st, done |-> FALSE, result |-> NoResult]

RECURSIVE slip_feed(_, _)
\* The for loop over the bytes of one read.
slip_feed(st, bytes) ==
    IF bytes = <<>> THEN [dec |-> st, done |-> FALSE, result |-> NoResult]
    ELSE LET one == slip_byte(st, bytes[1])
         IN IF one.done THEN one ELSE slip_feed(one.dec, Tail(bytes))

NoMarks == [zero |-> FALSE, after_esc |-> FALSE]

InitSlipVars ==
    /\ spc = "idle"
    /\ slip_payload = "none"
    /\ tx = NoResult
    /\ wire = <<>>
    /\ rx_pos = 0
    /\ dec = DecoderStart
    /\ rx = NoResult
    /\ read_marks = NoMarks

\* send_slip_frame: the frame goes out in one bulk write; the device at the
\* other end sends it back.  A failed write sends nothing.
SendSlipFrame ==
    /\ spc = "idle"
    /\ \E payload \in SlipPayloads, write_ok \in BOOLEAN :
        /\ slip_payload' = payload
        /\ IF write_ok
           THEN /\ tx' = Ok(Len(slip_frame(payload)))
                /\ wire' = slip_frame(payload)
                /\ spc' = "receiving"
           ELSE /\ tx' = ErrorOs(NativeCode("usbfs", "timeout"))
                /\ wire' = <<>>
                /\ spc' = "returned"
    /\ UNCHANGED <<rx_pos, dec, rx, read_marks>>

\* The device sends bytes of its own; the host calls receive_slip_frame.
DeviceSends ==
    /\ spc = "idle"
    /\ \E stream \in SlipStreams : wire' = stream
    /\ spc' = "receiving"
    /\ UNCHANGED <<slip_payload, tx, rx_pos, dec, rx, read_marks>>

\* One turn of receive_slip_frame's loop: a read that returns up to 64 of the
\* bytes the device has (possibly none), then the for loop over them.
ReceiveRead ==
    /\ spc = "receiving"
    /\ \E len \in 0 .. Min(SLIP_READ_LEN, Len(wire) - rx_pos) :
        LET fed == slip_feed(loop_entry(dec), SubSeq(wire, rx_pos + 1, rx_pos + len))
        IN /\ rx_pos' = rx_pos + len
           /\ dec' = fed.dec
           /\ rx' = fed.result
           /\ spc' = IF fed.done THEN "returned" ELSE "receiving"
           /\ read_marks' = [zero |-> read_marks.zero \/ len = 0,
                             after_esc |-> read_marks.after_esc
                                             \/ (len > 0 /\ ~fed.done /\ wire[rx_pos + len] = ESC)]
    /\ UNCHANGED <<slip_payload, tx, wire>>

\* The read fails (`self.read(&mut buf)?`).
ReceiveReadFails ==
    /\ spc = "receiving"
    /\ rx' = ErrorOs(NativeCode("usbfs", "timeout"))
    /\ spc' = "returned"
    /\ UNCHANGED <<slip_payload, tx, wire, rx_pos, dec, read_marks>>

\* The exchange is over: the call returned, or the device has nothing more
\* and the caller is given up on.
SlipOver ==
    /\ spc = "returned" \/ (spc = "receiving" /\ rx_pos = Len(wire))
    /\ spc' = "idle"
    /\ slip_payload' = "none"
    /\ tx' = NoResult
    /\ wire' = <<>>
    /\ rx_pos' = 0
    /\ dec' = DecoderStart
    /\ rx' = NoResult
    /\ read_marks' = NoMarks

(***************************************************************************)
(* The FTDI UART helper (support/ftdi.rs).                                 *)
(***************************************************************************)
FTDI_SIO_RESET_REQUEST == 0
FTDI_SIO_SET_BAUDRATE_REQUEST == 3
USB_WRITE_REQUEST == 64
\* let base_clock = 3_000_000u32
BASE_CLOCK == 3000000
\* divisor.min(0x1FFFF)
MAX_DIVISOR == 131071

\* Baud rates asked for: none, the slowest, rates on both sides of the point
\* where the divisor is capped, common rates, and rates at and beyond the clock.
FtdiBauds == {0, 1, 100, 183, 184, 300, 366, 367, 9600, 115200, 921600, 1000000,
              2500000, 3000000, 12000000, 24000000, 24000001, 2147483647}
\* Interface numbers an FtdiDevice can be opened with.
FtdiInterfaces == {0, 1, 2, 255}

VARIABLES
    fpc,     \* "idle" or "returned"
    ftdi,    \* the FtdiDevice: whether it exists, and its interface field
    fcall,   \* the call in progress
    flog,    \* the control transfers the call handed to the handle
    fret     \* what the call returned

fvars == <<fpc, ftdi, fcall, flog, fret>>

NoFtdi == [open |-> FALSE, interface |-> 0]
NoFtdiCall == [op |-> "none", baud |-> 0]
\* ControlTransferData::None
NoData == [tag |-> "None", len |-> 0]
\* Duration::from_millis(100)
FtdiTimeout == Duration(0, 100000000)

\* Option<u32>
None == [some |-> FALSE, v |-> 0]
Some(v) == [some |-> TRUE, v |-> v]

Max(a, b) == IF a > b THEN a ELSE b

compute_ftdi_divisor(baud) ==
    IF baud = 0 THEN None
    ELSE Some(Min(Max((BASE_CLOCK * 8) \div baud, 1), MAX_DIVISOR))

RECURSIVE bit_or(_, _, _)
\* a | b on unsigned values of the given number of bits
bit_or(a, b, bits) ==
    IF bits = 0 THEN 0
    ELSE (IF a % 2 = 1 \/ b % 2 = 1 THEN 1 ELSE 0) + 2 * bit_or(a \div 2, b \div 2, bits - 1)

\* The ControlRequest set_baud_rate builds from the divisor.
baud_request(divisor, interface) ==
    [request_type |-> USB_WRITE_REQUEST,
     request |-> FTDI_SIO_SET_BAUDRATE_REQUEST,
     value |-> as_u16(divisor % 65536),
     index |-> bit_or(as_u16((divisor \div 65536) % 65536), (interface * 256) % 65536, 16)]

\* The ControlRequest of reset().
reset_request(interface) ==
    [request_type |-> USB_WRITE_REQUEST,
     request |-> FTDI_SIO_RESET_REQUEST,
     value |-> 0,
     index |-> interface]

\* One control transfer as the helper hands it to the handle.
FtdiTransfer(request, out) ==
    [request |-> request, data |-> NoData, timeout |-> FtdiTimeout, calls |-> out.calls]

\* .map(|_| ())
unit(r) == IF IsOk(r) THEN Ok(0) ELSE r

InitFtdiVars ==
    /\ fpc = "idle"
    /\ ftdi = NoFtdi
    /\ fcall = NoFtdiCall
    /\ flog = <<>>
    /\ fret = NoResult

\* FtdiDevice::open_device: open the device, then reset(); the FtdiDevice
\* exists only if both succeed.
FtdiOpenDevice ==
    /\ fpc = "idle"
    /\ ~ftdi.open
    /\ \E interface \in FtdiInterfaces, open_ok \in BOOLEAN, ret \in BackendReturns(backend, 0) :
        LET request == reset_request(interface)
            out == control_transfer(backend, request, NoData, FtdiTimeout, TRUE, ret, pipe_timeout)
        IN IF ~open_ok
           THEN /\ flog' = <<>>
                /\ fret' = ErrorOs(NativeCode(backend, "disconnected"))
                /\ ftdi' = NoFtdi
           ELSE /\ flog' = <<FtdiTransfer(request, out)>>
                /\ fret' = unit(out.result)
                /\ ftdi' = IF IsOk(out.result) THEN [open |-> TRUE, interface |-> interface]
                           ELSE NoFtdi
    /\ fcall' = [op |-> "open_device", baud |-> 0]
    /\ fpc' = "returned"

\* FtdiDevice::set_baud_rate
FtdiSetBaudRate ==
    /\ fpc = "idle"
    /\ ftdi.open
    /\ \E baud \in FtdiBauds, ret \in BackendReturns(backend, 0) :
        LET divisor == compute_ftdi_divisor(baud)
            request == baud_request(divisor.v, ftdi.interface)
            out == control_transfer(backend, request, NoData, FtdiTimeout, TRUE, ret, pipe_timeout)
        IN /\ fcall' = [op |-> "set_baud_rate", baud |-> baud]
           /\ IF ~divisor.some
              THEN /\ flog' = <<>>
                   /\ fret' = ErrorNotSupported
              ELSE /\ flog' = <<FtdiTransfer(request, out)>>
                   /\ fret' = unit(out.result)
    /\ fpc' = "returned"
    /\ UNCHANGED ftdi

\* The call is back with its caller.
FtdiReturns ==
    /\ fpc = "returned"
    /\ fpc' = "idle"
    /\ fcall' = NoFtdiCall
    /\ flog' = <<>>
    /\ fret' = NoResult
    /\ UNCHANGED ftdi

\* The FtdiDevice is dropped.
FtdiDrop ==
    /\ fpc = "idle"
    /\ ftdi.open
    /\ ftdi' = NoFtdi
    /\ UNCHANGED <<fpc, fcall, flog, fret>>

(***************************************************************************)
(* String descriptors (lib.rs).  A descriptor is the sequence of bytes the *)
(* device sends; a string is the sequence of its characters' code points.  *)
(***************************************************************************)
\* let mut buf = [0u8; 255]
STRING_BUF_LEN == 255
\* b_descriptor_type != 0x03
STRING_DESCRIPTOR_TYPE == 3
\* lang_id 0x0409
LANG_EN_US == 1033

MaxUnits == 2
\* Code units a device may send: 'A', e-acute, L-stroke (0x0141), a high and a
\* low surrogate.
DescUnits == {65, 233, 321, 55357, 56832}
DescTypes == {STRING_DESCRIPTOR_TYPE, 2}

RECURSIVE le_bytes(_)
\* UTF-16LE: each code unit low byte first.
le_bytes(units) ==
    IF units = <<>> THEN <<>>
    ELSE <<units[1] % 256, units[1] \div 256>> \o le_bytes(Tail(units))

\* Lengths a device may declare for a descriptor of n code units: too small
\* for a header, the true length, one more, two more.
DeclaredLengths(n) == {0, 1, 2, 2 + 2 * n, 3 + 2 * n, 4 + 2 * n}

\* What the device answers GET_DESCRIPTOR with: a header and code units, of
\* which the transfer may deliver only the first few bytes.
Descriptors ==
    UNION {UNION {{SubSeq(<<b_length, type>> \o le_bytes(units), 1, sent) :
                        sent \in {0, 1, 2, 2 + 2 * Len(units)}} :
                    b_length \in DeclaredLengths(Len(units)), type \in DescTypes} :
           units \in SeqsUpTo(DescUnits, MaxUnits)}

\* Ok(String)
OkString(chars) == [tag |-> "Ok", chars |-> chars]
\* The thread panics.
Panic == [tag |-> "Panic", n |-> 0, kind |-> "none", code |-> 0]

\* The ControlRequest of read_string_descriptor.
string_request(index, lang_id) ==
    [request_type |-> 128, request |-> 6, value |-> 3 * 256 + index, index |-> lang_id]

\* DeviceHandle::read_string_descriptor: one control transfer into the buffer.
read_string_descriptor(b, index, lang_id, buf_len, ret, pt) ==
    control_transfer(b, string_request(index, lang_id), [tag |-> "In", len |-> buf_len],
                     Duration(1, 0), TRUE, ret, pt).result

\* buf[i] after the transfer: the bytes received, zeros behind them.
buf_at(desc, i) == IF i < Len(desc) THEN desc[i + 1] ELSE 0

\* a - b on usize: a panic where overflow is checked, a wrapped value
\* (2^64 + a - b, kept as a - b with a mark) where it is not.
sub_usize(a, b, overflow_checks) ==
    [panic |-> a < b /\ overflow_checks, wrapped |-> a < b /\ ~overflow_checks, v |-> a - b]

RECURSIVE from_utf16(_)
\* String::from_utf16: surrogate pairs become one character, a surrogate
\* without its partner is an error.
from_utf16(units) ==
    IF units = <<>> THEN OkString(<<>>)
    ELSE IF units[1] >= 55296 /\ units[1] <= 56319
    THEN (IF Len(units) >= 2 /\ units[2] >= 56320 /\ units[2] <= 57343
          THEN LET rest == from_utf16(Tail(Tail(units)))
               IN IF IsOk(rest)
                  THEN OkString(<<65536 + (units[1] - 55296) * 1024 + (units[2] - 56320)>>
                                    \o rest.chars)
                  ELSE rest
          ELSE ErrorUnknown)
    ELSE IF units[1] >= 56320 /\ units[1] <= 57343 THEN ErrorUnknown
    ELSE LET rest == from_utf16(Tail(units))
         IN IF IsOk(rest) THEN OkString(<<units[1]>> \o rest.chars) ELSE rest

\* let utf16_len = (b_length - 2) / 2; Vec::with_capacity(utf16_len): a wrapped
\* difference asks for more than isize::MAX bytes, which panics.
utf16_len_of(b_length, overflow_checks) ==
    LET diff == sub_usize(b_length, 2, overflow_checks)
    IN [panic |-> diff.panic \/ diff.wrapped, v |-> diff.v \div 2]

\* DeviceHandle::read_string_descriptor_ascii, given what the transfer returned
\* and the bytes it left in the buffer.
read_string_descriptor_ascii(read, desc, overflow_checks) ==
    IF IsErr(read) THEN read
    ELSE IF read.n < 2 THEN ErrorUnknown
    ELSE IF buf_at(desc, 1) # STRING_DESCRIPTOR_TYPE THEN ErrorUnknown
    ELSE LET utf16_len == utf16_len_of(buf_at(desc, 0), overflow_checks)
         IN IF utf16_len.panic THEN Panic
            ELSE from_utf16([i \in 1 .. utf16_len.v |->
                                buf_at(desc, 2 * i) + 256 * buf_at(desc, 2 * i + 1)])

\* The transfer's outcomes: the descriptor's bytes arrive, or the call fails.
DescriptorReturns(desc) ==
    {[ok |-> TRUE, n |-> Len(desc), cause |-> "none", status |-> "ok"]}
    \cup {[ok |-> FALSE, n |-> 0, cause |-> c, status |-> "ok"] : c \in FailCauses}

\* A call of read_string_descriptor_ascii, in a build with or without checked
\* arithmetic.
ReadStringDescriptorAscii ==
    /\ pcall = NoPureCall
    /\ \E desc \in Descriptors, overflow_checks \in BOOLEAN :
        \E ret \in DescriptorReturns(desc) :
            LET read == read_string_descriptor(backend, 1, LANG_EN_US, STRING_BUF_LEN, ret,
                                               pipe_timeout)
                got == IF ret.ok THEN desc ELSE <<>>
            IN /\ pcall' = PureCall("read_string_descriptor_ascii",
                                    [desc |-> got, read |-> read,
                                     overflow_checks |-> overflow_checks])
               /\ pret' = read_string_descriptor_ascii(read, got, overflow_checks)

(***************************************************************************)
(* The STM32 DFU helper (support/stm32.rs).  Time is in milliseconds.      *)
(***************************************************************************)
USB_TYPE_CLASS_INTERFACE_OUT == 33
USB_TYPE_CLASS_INTERFACE_IN == 161
DFU_DNLOAD == 1
DFU_GETSTATUS == 3
\* let mut buf = [0u8; 6]
DFU_STATUS_LEN == 6
\* Duration::from_secs(5) of mass_erase
MASS_ERASE_TIMEOUT_MS == 5000

MaxPolls == 3
\* Status reports a device gives: status byte, three poll-timeout bytes (0, 10,
\* 5000 and 65793 ms), state and string index.
DfuReports ==
    {<<0, 0, 0, 0, 2, 0>>}
    \cup {<<4, pt[1], pt[2], pt[3], 4, 0>> :
            pt \in {<<0, 0, 0>>, <<10, 0, 0>>, <<136, 19, 0>>, <<1, 1, 1>>}}
\* Bounds wait_while_busy is called with.
DfuWaitTimeouts == {0, 2, 20}
\* How long a control transfer takes.
DfuTransferTimes == {1, 100}
\* The interface field of the Stm32DfuDevice.
DfuInterface == 0

VARIABLES
    dfu_pc,       \* "idle", "poll" (about to call get_status), "sleep", "returned"
    dfu_call,     \* the call in progress and its wall-clock bound
    dfu_elapsed,  \* start.elapsed()
    dfu_buf,      \* wait_while_busy's status buffer
    dfu_polls,    \* how many times get_status was called
    dfu_log,      \* the transfers and sleeps of the call, in order
    dfu_ret       \* what the call returned

dfuvars == <<dfu_pc, dfu_call, dfu_elapsed, dfu_buf, dfu_polls, dfu_log, dfu_ret>>

NoDfuCall == [op |-> "none", timeout |-> 0]
ZeroStatus == <<0, 0, 0, 0, 0, 0>>

\* The ControlRequest of download_block.
download_request(block_num, interface) ==
    [request_type |-> USB_TYPE_CLASS_INTERFACE_OUT, request |-> DFU_DNLOAD,
     value |-> block_num, index |-> interface]

\* The ControlRequest of get_status.
status_request(interface) ==
    [request_type |-> USB_TYPE_CLASS_INTERFACE_IN, request |-> DFU_GETSTATUS,
     value |-> 0, index |-> interface]

\* Stm32DfuDevice::download_block
download_block(b, block_num, payload, interface, ret, pt) ==
    unit(control_transfer(b, download_request(block_num, interface),
                         [tag |-> "Out", len |-> Len(payload)], Duration(1, 0), TRUE, ret,
                         pt).result)

\* Stm32DfuDevice::get_status
get_status(b, interface, ret, pt) ==
    unit(control_transfer(b, status_request(interface),
                         [tag |-> "In", len |-> DFU_STATUS_LEN], Duration(0, 100000000), TRUE,
                         ret, pt).result)

\* The buffer after a transfer that delivered the first n bytes of report.
filled(buf, report, n) == [i \in 1 .. Len(buf) |-> IF i <= n THEN report[i] ELSE buf[i]]

\* A poll timeout read with its bytes in the opposite order.
poll_timeout_of_be(buf) == buf[4] + 256 * buf[3] + 65536 * buf[2]

\* u32::from_le_bytes([buf[1], buf[2], buf[3], 0])
poll_timeout_of(buf) == buf[2] + 256 * buf[3] + 65536 * buf[4]

\* A loop that never looks at the clock.
bound_exceeded_never(elapsed, timeout) == FALSE

\* start.elapsed() > timeout
bound_exceeded(elapsed, timeout) == elapsed > timeout

DfuEvent(op, request, payload, buf, ms, ok) ==
    [op |-> op, request |-> request, payload |-> payload, buf |-> buf, ms |-> ms, ok |-> ok]

InitDfuVars ==
    /\ dfu_pc = "idle"
    /\ dfu_call = NoDfuCall
    /\ dfu_elapsed = 0
    /\ dfu_buf = ZeroStatus
    /\ dfu_polls = 0
    /\ dfu_log = <<>>
    /\ dfu_ret = NoResult

\* mass_erase up to its call of wait_while_busy: the download, `?`, then
\* Instant::now() and the zeroed buffer.
DfuMassErase ==
    /\ dfu_pc = "idle"
    /\ \E ret \in BackendReturns(backend, 2) :
        LET payload == <<65, 0>>
            done == download_block(backend, 0, payload, DfuInterface, ret, pipe_timeout)
        IN /\ dfu_log' = <<DfuEvent("download", download_request(0, DfuInterface), payload,
                                    <<>>, 0, IsOk(done))>>
           /\ IF IsErr(done)
              THEN dfu_pc' = "returned" /\ dfu_ret' = done
              ELSE dfu_pc' = "poll" /\ dfu_ret' = NoResult
    /\ dfu_call' = [op |-> "mass_erase", timeout |-> MASS_ERASE_TIMEOUT_MS]
    /\ dfu_elapsed' = 0
    /\ dfu_buf' = ZeroStatus
    /\ dfu_polls' = 0

\* wait_while_busy called by itself, up to its loop.
DfuWaitWhileBusy ==
    /\ dfu_pc = "idle"
    /\ \E timeout \in DfuWaitTimeouts :
        dfu_call' = [op |-> "wait_while_busy", timeout |-> timeout]
    /\ dfu_pc' = "poll"
    /\ dfu_elapsed' = 0
    /\ dfu_buf' = ZeroStatus
    /\ dfu_polls' = 0
    /\ dfu_log' = <<>>
    /\ dfu_ret' = NoResult

\* One turn of wait_while_busy's loop up to the sleep: get_status, the test of
\* buf[0], the test of the elapsed time.
DfuPoll ==
    /\ dfu_pc = "poll"
    /\ dfu_polls < MaxPolls
    /\ \E report \in DfuReports, ret \in BackendReturns(backend, DFU_STATUS_LEN),
          took \in DfuTransferTimes :
        LET got == get_status(backend, DfuInterface, ret, pipe_timeout)
            buf == IF ret.ok THEN filled(dfu_buf, report, ret.n) ELSE dfu_buf
            now == dfu_elapsed + took
        IN /\ dfu_buf' = buf
           /\ dfu_elapsed' = now
           /\ dfu_log' = Append(dfu_log, DfuEvent("get_status", status_request(DfuInterface),
                                                  <<>>, buf, 0, IsOk(got)))
           /\ IF IsErr(got) THEN dfu_pc' = "returned" /\ dfu_ret' = got
              ELSE IF buf[1] = 0 THEN dfu_pc' = "returned" /\ dfu_ret' = Ok(0)
              ELSE IF bound_exceeded(now, dfu_call.timeout)
              THEN dfu_pc' = "returned" /\ dfu_ret' = ErrorUnknown
              ELSE dfu_pc' = "sleep" /\ dfu_ret' = NoResult
    /\ dfu_polls' = dfu_polls + 1
    /\ UNCHANGED dfu_call

\* thread::sleep(Duration::from_millis(poll_timeout as u64)), then round the loop.
DfuSleep ==
    /\ dfu_pc = "sleep"
    /\ dfu_log' = Append(dfu_log, DfuEvent("sleep", <<>>, <<>>, <<>>, poll_timeout_of(dfu_buf),
                                           TRUE))
    /\ dfu_elapsed' = dfu_elapsed + poll_timeout_of(dfu_buf)
    /\ dfu_pc' = "poll"
    /\ UNCHANGED <<dfu_call, dfu_buf, dfu_polls, dfu_ret>>

\* The call is over: it returned, or it is left polling.
DfuOver ==
    /\ dfu_pc = "returned" \/ (dfu_pc = "poll" /\ dfu_polls = MaxPolls)
    /\ dfu_pc' = "idle"
    /\ dfu_call' = NoDfuCall
    /\ dfu_elapsed' = 0
    /\ dfu_buf' = ZeroStatus
    /\ dfu_polls' = 0
    /\ dfu_log' = <<>>
    /\ dfu_ret' = NoResult

(***************************************************************************)
(* usbfs enumeration and device descriptors from sysfs (platform/linux.rs).*)
(* An attribute file is absent, or holds the text the kernel wrote.        *)
(***************************************************************************)
ENOENT == 2
\* length: 18, descriptor_type: 0x01
DEVICE_DESCRIPTOR_LENGTH == 18
DEVICE_DESCRIPTOR_TYPE == 1

MaxNodes == 3
Absent == [exists |-> FALSE, contents |-> <<>>]
File(contents) == [exists |-> TRUE, contents |-> contents]
\* Entries of /sys/bus/usb/devices: devices have busnum and devnum, interface
\* nodes have neither; an entry may also fail to be read from the directory.
SysfsNodes ==
    {[entry_ok |-> TRUE, busnum |-> b, devnum |-> d] :
        b \in {Absent, File(<<"1", "\n">>), File(<<"1", "1", "\n">>)},
        d \in {Absent, File(<<"1", "\n">>), File(<<"1", "0", "\n">>)}}
    \cup {[entry_ok |-> FALSE, busnum |-> Absent, devnum |-> Absent]}
SysfsTrees == SeqsUpTo(SysfsNodes, MaxNodes)

\* fs::read_to_string(path.join(attr))?, trimmed
read_attr(file) ==
    IF file.exists THEN [tag |-> "Ok", text |-> trim(file.contents)]
    ELSE from_io_error(ENOENT)

\* Ok(Some(text)), Ok(None) when the file is not found
read_attr_optional(file) ==
    IF file.exists THEN [tag |-> "Ok", some |-> TRUE, text |-> trim(file.contents)]
    ELSE [tag |-> "Ok", some |-> FALSE, text |-> <<>>]

read_u8_auto(file) ==
    IF IsErr(read_attr(file)) THEN read_attr(file) ELSE parse_u8_auto(read_attr(file).text)

read_u8_auto_optional(file) ==
    IF read_attr_optional(file).some THEN parse_u8_auto(read_attr_optional(file).text)
    ELSE Ok(0)

read_u16_auto(file) ==
    IF IsErr(read_attr(file)) THEN read_attr(file) ELSE parse_u16_auto(read_attr(file).text)

\* A test that lets a node through when it has one of the two attributes.
node_is_device_either(node) == node.devnum.exists \/ node.busnum.exists

\* The negation of the skip test of devices():
\* !path.join("devnum").exists() || !path.join("busnum").exists()
node_is_device(node) == node.devnum.exists /\ node.busnum.exists

\* Ok(DeviceList { devices })
OkList(devices) == [tag |-> "Ok", devices |-> devices]

RECURSIVE scan_nodes(_, _, _)
\* The for loop of devices() from entry i on, with the devices pushed so far.
scan_nodes(tree, i, devices) ==
    IF i > Len(tree) THEN OkList(devices)
    ELSE IF ~tree[i].entry_ok THEN from_io_error(EPIPE)
    ELSE IF ~node_is_device(tree[i]) THEN scan_nodes(tree, i + 1, devices)
    ELSE IF IsErr(read_u16_auto(tree[i].busnum)) THEN read_u16_auto(tree[i].busnum)
    ELSE IF IsErr(read_u16_auto(tree[i].devnum)) THEN read_u16_auto(tree[i].devnum)
    ELSE scan_nodes(tree, i + 1,
                    Append(devices, [sysfs_path |-> i,
                                     bus_number |-> read_u16_auto(tree[i].busnum).n,
                                     device_address |-> read_u16_auto(tree[i].devnum).n]))

\* linux::devices
linux_devices(read_dir_ok, tree) ==
    IF ~read_dir_ok THEN from_io_error(ENOENT) ELSE scan_nodes(tree, 1, <<>>)

\* A call of devices() on a sysfs tree.
EnumerateDevices ==
    /\ pcall = NoPureCall
    /\ \E tree \in SysfsTrees, read_dir_ok \in BOOLEAN :
        /\ pcall' = PureCall("devices", [tree |-> tree, read_dir_ok |-> read_dir_ok])
        /\ pret' = linux_devices(read_dir_ok, tree)

\* The attributes get_device_descriptor reads, in the order it reads them:
\* the field, the file, the width, and whether the file may be absent.
DescriptorAttrs ==
    <<[field |-> "usb_version", attr |-> "bcdUSB", bits |-> 16, optional |-> FALSE],
      [field |-> "device_class", attr |-> "bDeviceClass", bits |-> 8, optional |-> FALSE],
      [field |-> "device_subclass", attr |-> "bDeviceSubClass", bits |-> 8, optional |-> FALSE],
      [field |-> "device_protocol", attr |-> "bDeviceProtocol", bits |-> 8, optional |-> FALSE],
      [field |-> "max_packet_size_0", attr |-> "bMaxPacketSize0", bits |-> 8, optional |-> FALSE],
      [field |-> "vendor_id", attr |-> "idVendor", bits |-> 16, optional |-> FALSE],
      [field |-> "product_id", attr |-> "idProduct", bits |-> 16, optional |-> FALSE],
      [field |-> "device_version", attr |-> "bcdDevice", bits |-> 16, optional |-> FALSE],
      [field |-> "manufacturer_string_index", attr |-> "iManufacturer", bits |-> 8,
       optional |-> TRUE],
      [field |-> "product_string_index", attr |-> "iProduct", bits |-> 8, optional |-> TRUE],
      [field |-> "serial_number_string_index", attr |-> "iSerialNumber", bits |-> 8,
       optional |-> TRUE],
      [field |-> "num_configurations", attr |-> "bNumConfigurations", bits |-> 8,
       optional |-> FALSE]>>

AttrNames == {DescriptorAttrs[i].attr : i \in DOMAIN DescriptorAttrs}
\* Device nodes: every attribute file is absent or holds "1\n".
DeviceNodes == [AttrNames -> {Absent, File(<<"1", "\n">>)}]

\* The read get_device_descriptor makes for its i-th attribute.
read_descriptor_attr(node, i) ==
    LET a == DescriptorAttrs[i]
    IN IF a.optional THEN read_u8_auto_optional(node[a.attr])
       ELSE IF a.bits = 16 THEN read_u16_auto(node[a.attr])
       ELSE read_u8_auto(node[a.attr])

\* Ok(DeviceDescriptor { .. })
OkDescriptor(fields) ==
    [tag |-> "Ok", length |-> DEVICE_DESCRIPTOR_LENGTH,
     descriptor_type |-> DEVICE_DESCRIPTOR_TYPE, fields |-> fields]

\* linux::get_device_descriptor: the reads in order, the first error returned.
linux_get_device_descriptor(node) ==
    LET failed == {i \in DOMAIN DescriptorAttrs : IsErr(read_descriptor_attr(node, i))}
    IN IF failed # {}
       THEN read_descriptor_attr(node, CHOOSE i \in failed : \A j \in failed : i <= j)
       ELSE OkDescriptor([f \in {DescriptorAttrs[i].field : i \in DOMAIN DescriptorAttrs} |->
                            LET i == CHOOSE k \in DOMAIN DescriptorAttrs :
                                        DescriptorAttrs[k].field = f
                            IN read_descriptor_attr(node, i).n])

\* A call of get_device_descriptor on a device's sysfs node.
GetDeviceDescriptor ==
    /\ pcall = NoPureCall
    /\ \E node \in DeviceNodes :
        /\ pcall' = PureCall("get_device_descriptor", node)
        /\ pret' = linux_get_device_descriptor(node)

(***************************************************************************)
(* ChannelLogger (support/logger.rs): bulk transfers on a pair of          *)
(* endpoints, each logged as one line to a Write sink.  A sink accepts a   *)
(* number of writes and fails the next one.                                *)
(***************************************************************************)
LOGGER_TIMEOUT_MS == 500
MaxLogLen == 2
LogBytes == {0, 171}
LogFrames == UNION {[1..n -> LogBytes] : n \in 0..MaxLogLen}
\* The writes a sink accepts before it fails: from none to a whole line.
LogRooms == 0..(MaxLogLen + 2)
\* SystemTime::now() since the epoch, as seconds and milliseconds.
LogTimes == [secs : {0, 17}, millis : {0, 5, 250}]
\* ChannelLogger::new's endpoints.
LoggerEndpoints == [in_ep : {129}, out_ep : {2}]

VARIABLES
    log_pc,     \* "idle", "returned"
    log_call,   \* the call of write or read, what its transfer did, the sink's room
    log_sink,   \* what the sink holds: the pieces written to it, in order
    log_ret     \* what the call returned

logvars == <<log_pc, log_call, log_sink, log_ret>>

NoLogCall == [op |-> "none", endpoint |-> 0, tag |-> "None", data |-> <<>>, timeout_ms |-> 0,
              transfer |-> NoResult, room |-> 0]

\* What the handle's bulk_transfer gives for a buffer of len bytes.
LogTransfers(len) ==
    {Ok(k) : k \in 0..len} \cup {ErrorOs(NativeCode("usbfs", c)) : c \in {"timeout", "stall"}}

HexDigits == <<"0", "1", "2", "3", "4", "5", "6", "7", "8", "9", "A", "B", "C", "D", "E", "F">>

\* "{byte:02X} "
hex_byte(byte) == <<HexDigits[(byte \div 16) + 1], HexDigits[(byte % 16) + 1], " ">>

RECURSIVE decimal(_)
\* "{}" of an unsigned integer
decimal(n) == IF n < 10 THEN <<HexDigits[n + 1]>>
              ELSE Append(decimal(n \div 10), HexDigits[(n % 10) + 1])

\* "{:03}" of the milliseconds
decimal_03(n) == LET d == decimal(n)
                 IN [i \in 1..(3 - Len(d)) |-> "0"] \o d

\* "[{label}] {}.{:03}: "
frame_header(label, ts) ==
    <<"[">> \o <<label>> \o <<"] ">> \o decimal(ts.secs) \o <<".">> \o decimal_03(ts.millis)
        \o <<": ">>

\* What log_frame's write! calls write, in order: the header, one piece per
\* byte, the newline.
frame_pieces(label, data, ts) ==
    <<frame_header(label, ts)>> \o [i \in 1..Len(data) |-> hex_byte(data[i])] \o <<<<"\n">>>>

\* log_frame: the header, one write per byte, the newline; the first write the
\* sink refuses ends it with the sink's error.
log_frame(label, data, ts, sink, room) ==
    LET pieces == frame_pieces(label, data, ts)
    IN IF room >= Len(pieces)
       THEN [sink |-> sink \o pieces, ok |-> TRUE]
       ELSE [sink |-> sink \o SubSeq(pieces, 1, room), ok |-> FALSE]

\* The body write and read share: the transfer with `?`, log_frame of the
\* bytes moved with map_err(|_| Error::Unknown)?, Ok(count).
logger_transfer(label, data, transfer, ts, sink, room) ==
    IF IsErr(transfer) THEN [sink |-> sink, result |-> transfer]
    ELSE LET logged == log_frame(label, SubSeq(data, 1, transfer.n), ts, sink, room)
         IN IF ~logged.ok THEN [sink |-> logged.sink, result |-> ErrorUnknown]
            ELSE [sink |-> logged.sink, result |-> Ok(transfer.n)]

InitLogVars ==
    /\ log_pc = "idle"
    /\ log_call = NoLogCall
    /\ log_sink = <<>>
    /\ log_ret = NoResult

\* ChannelLogger::write
LoggerWrite ==
    /\ log_pc = "idle"
    /\ \E eps \in LoggerEndpoints, data \in LogFrames, ts \in LogTimes, room \in LogRooms :
        \E transfer \in LogTransfers(Len(data)) :
            LET out == logger_transfer("TX", data, transfer, ts, log_sink, room)
            IN /\ log_call' = [op |-> "write", endpoint |-> eps.out_ep, tag |-> "Out",
                               data |-> data, timeout_ms |-> LOGGER_TIMEOUT_MS,
                               transfer |-> transfer, room |-> room]
               /\ log_sink' = out.sink
               /\ log_ret' = out.result
    /\ log_pc' = "returned"

\* ChannelLogger::read: data is what the buffer holds after the transfer.
LoggerRead ==
    /\ log_pc = "idle"
    /\ \E eps \in LoggerEndpoints, data \in LogFrames, ts \in LogTimes, room \in LogRooms :
        \E transfer \in LogTransfers(Len(data)) :
            LET out == logger_transfer("RX", data, transfer, ts, log_sink, room)
            IN /\ log_call' = [op |-> "read", endpoint |-> eps.in_ep, tag |-> "In",
                               data |-> data, timeout_ms |-> LOGGER_TIMEOUT_MS,
                               transfer |-> transfer, room |-> room]
               /\ log_sink' = out.sink
               /\ log_ret' = out.result
    /\ log_pc' = "returned"

\* The caller takes the result; the logger is used again with an empty sink.
LoggerOver ==
    /\ log_pc = "returned"
    /\ log_pc' = "idle"
    /\ log_call' = NoLogCall
    /\ log_sink' = <<>>
    /\ log_ret' = NoResult

(***************************************************************************)
(* ChannelLogger shared by threads: each call runs its bulk transfer, then *)
(* locks the sink, writes its line piece by piece and drops the guard.     *)
(***************************************************************************)
LogThreads == {1, 2}
ThreadFrames == {<<>>, <<171>>, <<0, 171>>}
ThreadTimes == {[secs |-> 0, millis |-> 5], [secs |-> 17, millis |-> 250]}
\* The writes the shared sink accepts before it refuses every later one; a
\* new sink has the most room.
SinkRooms == {0, 2, 4, 100}

VARIABLES
    lt,          \* per thread: where it is in write/read, its call, the pieces it wrote
    sink_owner,  \* the thread holding the sink's guard, 0 when free
    sink_room    \* the writes the sink still accepts

ltvars == <<lt, sink_owner, sink_room>>

IdleThread == [pc |-> "idle", op |-> "none", data |-> <<>>, transfer |-> NoResult,
               ts |-> [secs |-> 0, millis |-> 0], written |-> 0, ret |-> NoResult]

\* "TX" for write, "RX" for read
frame_label(op) == IF op = "write" THEN "TX" ELSE "RX"

\* The pieces of the line of a thread's call: the bytes logged are
\* data[..written] or buf[..len].
thread_pieces(c) ==
    frame_pieces(frame_label(c.op), SubSeq(c.data, 1, c.transfer.n), c.ts)

InitLogThreadVars ==
    /\ lt = [t \in LogThreads |-> IdleThread]
    /\ sink_owner = 0
    /\ sink_room = CHOOSE r \in SinkRooms : \A q \in SinkRooms : q <= r

\* A thread calls write or read: the bulk transfer is under way.
LtCall(t) ==
    /\ lt[t].pc = "idle"
    /\ \E op \in {"write", "read"}, data \in ThreadFrames :
        lt' = [lt EXCEPT ![t] = [IdleThread EXCEPT !.pc = "transfer", !.op = op, !.data = data]]
    /\ UNCHANGED <<log_sink, sink_owner, sink_room>>

\* The bulk transfer returns: `?` on its error, otherwise on to log_frame.
LtTransferReturns(t) ==
    /\ lt[t].pc = "transfer"
    /\ \E transfer \in LogTransfers(Len(lt[t].data)) :
        lt' = [lt EXCEPT ![t] =
                 IF IsErr(transfer)
                 THEN [@ EXCEPT !.pc = "returned", !.transfer = transfer, !.ret = transfer]
                 ELSE [@ EXCEPT !.pc = "lock", !.transfer = transfer]]
    /\ UNCHANGED <<log_sink, sink_owner, sink_room>>

\* log_frame: self.sink.lock(), then SystemTime::now().
LtLock(t) ==
    /\ lt[t].pc = "lock"
    /\ mutex_lock_ready(sink_owner)
    /\ sink_owner' = t
    /\ \E ts \in ThreadTimes :
        lt' = [lt EXCEPT ![t] = [@ EXCEPT !.pc = "logging", !.ts = ts]]
    /\ UNCHANGED <<log_sink, sink_room>>

\* One write! of log_frame.  A refused write ends log_frame with `?`, the
\* last one ends it with Ok(()); either way the guard is dropped and the
\* call returns.
LtWrite(t) ==
    /\ lt[t].pc = "logging"
    /\ LET pieces == thread_pieces(lt[t])
           k == lt[t].written + 1
       IN IF sink_room = 0
          THEN /\ lt' = [lt EXCEPT ![t] = [@ EXCEPT !.pc = "returned", !.ret = ErrorUnknown]]
               /\ sink_owner' = 0
               /\ UNCHANGED <<log_sink, sink_room>>
          ELSE /\ log_sink' = Append(log_sink, pieces[k])
               /\ sink_room' = sink_room - 1
               /\ IF k = Len(pieces)
                  THEN /\ lt' = [lt EXCEPT ![t] = [@ EXCEPT !.pc = "returned", !.written = k,
                                                            !.ret = Ok(lt[t].transfer.n)]]
                       /\ sink_owner' = 0
                  ELSE /\ lt' = [lt EXCEPT ![t] = [@ EXCEPT !.written = k]]
                       /\ UNCHANGED sink_owner

\* Every caller has its result; the logger goes on with an empty sink.
LtOver ==
    /\ \A t \in LogThreads : lt[t].pc = "returned"
    /\ lt' = [t \in LogThreads |-> IdleThread]
    /\ log_sink' = <<>>
    /\ sink_owner' = 0
    /\ \E room \in SinkRooms : sink_room' = room

(***************************************************************************)
(* Esp32SerialBridge (support/esp32.rs): the control lines and the         *)
(* bootloader handshake.                                                   *)
(***************************************************************************)
CDC_SET_CONTROL_LINE_STATE == 34
USB_CLASS_REQUEST_OUT == 33
BOOT_SLEEP_MS == 50
\* The interface numbers a bridge is opened on.
BridgeInterfaces == {0, 1}

VARIABLES
    boot_pc,     \* "idle", "lines" (about to set the control lines), "sleep", "returned"
    boot_step,   \* which of the four line states comes next
    boot_iface,  \* the bridge's interface number
    boot_log,    \* the control transfers issued and the sleeps taken, in order
    boot_ret     \* what enter_bootloader_sequence returned

bootvars == <<boot_pc, boot_step, boot_iface, boot_log, boot_ret>>

\* The (dtr, rts) arguments of enter_bootloader_sequence's four calls.
boot_lines == <<[dtr |-> FALSE, rts |-> TRUE], [dtr |-> TRUE, rts |-> TRUE],
                [dtr |-> TRUE, rts |-> FALSE], [dtr |-> FALSE, rts |-> FALSE]>>

\* A value with RTS in bit 0 and DTR in bit 1.
control_line_value_swapped(dtr, rts) == (IF rts THEN 1 ELSE 0) + (IF dtr THEN 2 ELSE 0)

\* value |= 0x1 if dtr; value |= 0x2 if rts
control_line_value(dtr, rts) == (IF dtr THEN 1 ELSE 0) + (IF rts THEN 2 ELSE 0)

\* The ControlRequest of set_control_lines.
control_lines_request(dtr, rts, interface) ==
    [request_type |-> USB_CLASS_REQUEST_OUT, request |-> CDC_SET_CONTROL_LINE_STATE,
     value |-> control_line_value(dtr, rts), index |-> interface]

\* Esp32SerialBridge::set_control_lines: the handler's outcome, its result
\* mapped to ().
set_control_lines(b, dtr, rts, interface, policy_ok, ret, pt) ==
    LET out == control_transfer(b, control_lines_request(dtr, rts, interface), NoData,
                                Duration(0, 100000000), policy_ok, ret, pt)
    IN [out EXCEPT !.result = unit(out.result)]

LinesSet(request, r) == [op |-> "control", request |-> request, data |-> NoData, ms |-> 0,
                         result |-> r]
Slept(ms) == [op |-> "sleep", request |-> <<>>, data |-> NoData, ms |-> ms, result |-> Ok(0)]

InitBootVars ==
    /\ boot_pc = "idle"
    /\ boot_step = 0
    /\ boot_iface = 0
    /\ boot_log = <<>>
    /\ boot_ret = NoResult

\* enter_bootloader_sequence is called on a bridge.
BootEnter ==
    /\ boot_pc = "idle"
    /\ \E interface \in BridgeInterfaces : boot_iface' = interface
    /\ boot_pc' = "lines"
    /\ boot_step' = 1
    /\ boot_log' = <<>>
    /\ boot_ret' = NoResult
    /\ UNCHANGED pipe_timeout

\* self.set_control_lines(dtr, rts)?  After the fourth, Ok(()).
BootSetLines ==
    /\ boot_pc = "lines"
    /\ \E ret \in BackendReturns(backend, 0),
          policy_ok \in PolicyOutcomes(backend, Duration(0, 100000000)) :
        LET l == boot_lines[boot_step]
            out == set_control_lines(backend, l.dtr, l.rts, boot_iface, policy_ok, ret,
                                     pipe_timeout)
        IN /\ boot_log' = Append(boot_log,
                                 LinesSet(control_lines_request(l.dtr, l.rts, boot_iface),
                                          out.result))
           /\ pipe_timeout' = out.pipe_timeout
           /\ IF IsErr(out.result) THEN boot_pc' = "returned" /\ boot_ret' = out.result
              ELSE IF boot_step = Len(boot_lines) THEN boot_pc' = "returned" /\ boot_ret' = Ok(0)
              ELSE boot_pc' = "sleep" /\ boot_ret' = NoResult
    /\ UNCHANGED <<boot_step, boot_iface>>

\* thread::sleep(Duration::from_millis(50))
BootSleep ==
    /\ boot_pc = "sleep"
    /\ boot_log' = Append(boot_log, Slept(BOOT_SLEEP_MS))
    /\ boot_step' = boot_step + 1
    /\ boot_pc' = "lines"
    /\ UNCHANGED <<boot_iface, boot_ret, pipe_timeout>>

\* The caller takes the result.
BootOver ==
    /\ boot_pc = "returned"
    /\ boot_pc' = "idle"
    /\ boot_step' = 0
    /\ boot_iface' = 0
    /\ boot_log' = <<>>
    /\ boot_ret' = NoResult
    /\ UNCHANGED pipe_timeout

(***************************************************************************)
(* IOKit device-interface pointers (platform/macos.rs): the references     *)
(* devices() obtains, open adds, and the drops of MacosDevice and          *)
(* MacosDeviceHandle release.                                              *)
(***************************************************************************)
\* What devices() meets for one service: no plug-in, no device interface,
\* a device interface whose descriptor request fails, a device.
EnumOutcomes == {"no_plugin", "no_interface", "no_descriptor", "ok"}

VARIABLES
    mref,      \* per device: the reference count of its device-interface pointer
    mlist,     \* the DeviceList: "none", "live", "dropped"
    mlisted,   \* the devices in the DeviceList
    mhandles,  \* per device: the DeviceHandles alive
    mlast      \* the last call and its result

mvars == <<mref, mlist, mlisted, mhandles, mlast>>

MacCall(op, d, r) == [op |-> op, dev |-> d, result |-> r]

\* devices() on one service: QueryInterface hands out the pointer holding one
\* reference; the Device is pushed when DeviceRequestTO succeeds.
enumerated_refs(outcome) == IF outcome \in {"no_descriptor", "ok"} THEN 1 ELSE 0
enumerated_device(outcome) == outcome = "ok"

InitMacVars ==
    /\ mref = [d \in Devices |-> 0]
    /\ mlist = "none"
    /\ mlisted = {}
    /\ mhandles = [d \in Devices |-> 0]
    /\ mlast = MacCall("none", 0, NoResult)

\* devices()
MacDevices ==
    /\ mlist = "none"
    /\ \E outcome \in [Devices -> EnumOutcomes] :
        /\ mref' = [d \in Devices |-> enumerated_refs(outcome[d])]
        /\ mlisted' = {d \in Devices : enumerated_device(outcome[d])}
    /\ mlist' = "live"
    /\ mlast' = MacCall("devices", 0, Ok(0))
    /\ UNCHANGED mhandles

\* open: AddRef, USBDeviceOpenSeize, Release when the seize fails.
MacOpen(d) ==
    /\ mlist = "live" /\ d \in mlisted
    /\ mhandles[d] < MaxOpens
    /\ \E seize_ok \in BOOLEAN :
        LET o == macos_open(seize_ok)
        IN /\ mref' = [mref EXCEPT ![d] = @ + Count(o.acquired, "ref") - Count(o.released, "ref")]
           /\ mhandles' = [mhandles EXCEPT ![d] = IF IsOk(o.result) THEN @ + 1 ELSE @]
           /\ mlast' = MacCall("open", d, o.result)
    /\ UNCHANGED <<mlist, mlisted>>

\* impl Drop for MacosDeviceHandle: USBDeviceClose, Release.
MacDropHandle(d) ==
    /\ mhandles[d] > 0
    /\ mref' = [mref EXCEPT ![d] = @ - 1]
    /\ mhandles' = [mhandles EXCEPT ![d] = @ - 1]
    /\ mlast' = MacCall("drop_handle", d, Ok(0))
    /\ UNCHANGED <<mlist, mlisted>>

\* The DeviceList is dropped: impl Drop for MacosDevice releases each
\* device's pointer.
MacDropList ==
    /\ mlist = "live"
    /\ mref' = [d \in Devices |-> IF d \in mlisted THEN mref[d] - 1 ELSE mref[d]]
    /\ mlisted' = {}
    /\ mlist' = "dropped"
    /\ mlast' = MacCall("drop_list", 0, Ok(0))
    /\ UNCHANGED mhandles

\* Everything is dropped; the next devices() makes new pointers.
MacForget ==
    /\ mlist = "dropped"
    /\ \A d \in Devices : mhandles[d] = 0
    /\ mref' = [d \in Devices |-> 0]
    /\ mlist' = "none"
    /\ mlast' = MacCall("none", 0, NoResult)
    /\ UNCHANGED <<mlisted, mhandles>>

(***************************************************************************)
(* The specifications: transfers on an open handle; the claimed-interface  *)
(* map under concurrent callers and the handle's drop; opening devices.    *)
(***************************************************************************)
xonly == <<caps, pipe_timeout, xpc, cur, total, calls, result>>

vars == <<backend, caps, pipe_timeout, claimed_interfaces, xpc, cur, total, calls, result,
          lock, tpc, targ, theld, last, next_id, free_count, dpc, drop_left, drop_log,
          held, dev_handles, open_call, pcall, pret,
          spc, slip_payload, tx, wire, rx_pos, dec, rx, read_marks,
          fpc, ftdi, fcall, flog, fret,
          dfu_pc, dfu_call, dfu_elapsed, dfu_buf, dfu_polls, dfu_log, dfu_ret,
          log_pc, log_call, log_sink, log_ret,
          lt, sink_owner, sink_room,
          boot_pc, boot_step, boot_iface, boot_log, boot_ret,
          mref, mlist, mlisted, mhandles, mlast>>

\* What each specification leaves alone.
beside_transfers ==
    <<cvars, ovars, pvars, svars, fvars, dfuvars, logvars, ltvars, bootvars, mvars>>
beside_claims ==
    <<backend, xonly, ovars, pvars, svars, fvars, dfuvars, logvars, ltvars, bootvars, mvars>>
beside_opens ==
    <<claimed_interfaces, xonly, cvars, pvars, svars, fvars, dfuvars, logvars, ltvars, bootvars, mvars>>
beside_pure ==
    <<backend, claimed_interfaces, xonly, cvars, ovars, svars, fvars, dfuvars, logvars, ltvars, bootvars, mvars>>
beside_slip ==
    <<backend, claimed_interfaces, xonly, cvars, ovars, pvars, fvars, dfuvars, logvars, ltvars, bootvars, mvars>>
beside_ftdi ==
    <<backend, claimed_interfaces, xonly, cvars, ovars, pvars, svars, dfuvars, logvars, ltvars, bootvars, mvars>>
beside_dfu ==
    <<backend, claimed_interfaces, xonly, cvars, ovars, pvars, svars, fvars, logvars, ltvars, bootvars, mvars>>
beside_logger ==
    <<backend, claimed_interfaces, xonly, cvars, ovars, pvars, svars, fvars, dfuvars, ltvars, bootvars, mvars>>
beside_log_threads ==
    <<backend, claimed_interfaces, xonly, cvars, ovars, pvars, svars, fvars, dfuvars,
      log_pc, log_call, log_ret, bootvars, mvars>>
beside_boot ==
    <<backend, claimed_interfaces, caps, xpc, cur, total, calls, result, cvars, ovars, pvars,
      svars, fvars, dfuvars, logvars, ltvars, mvars>>
beside_mac ==
    <<backend, claimed_interfaces, xonly, cvars, ovars, pvars, svars, fvars, dfuvars, logvars,
      ltvars, bootvars>>

InitXferVars ==
    /\ caps = 0
    /\ pipe_timeout = [e \in PipeEndpoints |-> Zero32]
    /\ xpc = "idle"
    /\ cur = NoCall
    /\ total = 0
    /\ calls = <<>>
    /\ result = NoResult

\* The variables other than the handle's backend, claimed map and transfer state.
InitOtherVars ==
    /\ InitClaimVars /\ InitOpenVars /\ InitPureVars /\ InitSlipVars /\ InitFtdiVars
    /\ InitDfuVars /\ InitLogVars /\ InitLogThreadVars /\ InitBootVars
    /\ InitMacVars

InitTransfers == InitXfer /\ InitOtherVars

NextTransfers ==
    \/ ControlTransfer /\ UNCHANGED beside_transfers
    \/ PipeTransfer /\ UNCHANGED beside_transfers
    \/ UsbfsDataTransfer /\ UNCHANGED beside_transfers
    \/ SubmitBulk /\ UNCHANGED beside_transfers
    \/ TransferReturns /\ UNCHANGED beside_transfers

SpecXfer == InitTransfers /\ [][NextTransfers]_vars

InitClaim ==
    /\ backend \in ClaimBackends
    /\ claimed_interfaces = {}
    /\ InitXferVars /\ InitOtherVars

NextClaim ==
    \/ \E t \in Threads : ClaimBegin(t) /\ UNCHANGED beside_claims
    \/ \E t \in Threads : ClaimScan(t) /\ UNCHANGED beside_claims
    \/ \E t \in Threads : ReleaseBegin(t) /\ UNCHANGED beside_claims
    \/ \E t \in Threads : ReleaseFree(t) /\ UNCHANGED beside_claims
    \/ \E t \in Threads : AltBegin(t) /\ UNCHANGED beside_claims
    \/ \E t \in Threads : AltUse(t) /\ UNCHANGED beside_claims
    \/ DropBegin /\ UNCHANGED beside_claims
    \/ DropIface /\ UNCHANGED beside_claims
    \/ DropDevice /\ UNCHANGED beside_claims
    \/ DropOsHandle /\ UNCHANGED beside_claims

SpecClaim == InitClaim /\ [][NextClaim]_vars

InitOpen ==
    /\ backend \in Backends
    /\ claimed_interfaces = {}
    /\ InitXferVars /\ InitOtherVars

NextOpen ==
    \/ \E d \in Devices : Open(d) /\ UNCHANGED beside_opens
    \/ \E d \in Devices : DropHandle(d) /\ UNCHANGED beside_opens

SpecOpen == InitOpen /\ [][NextOpen]_vars

\* The pure functions, called one at a time with arguments from their input sets.
InitPure ==
    /\ backend = "usbfs"
    /\ claimed_interfaces = {}
    /\ InitXferVars /\ InitOtherVars

NextPure ==
    \/ DurationToTimeout /\ UNCHANGED beside_pure
    \/ ParseNumericAuto /\ UNCHANGED beside_pure
    \/ ReadStringDescriptorAscii /\ UNCHANGED beside_pure
    \/ EnumerateDevices /\ UNCHANGED beside_pure
    \/ GetDeviceDescriptor /\ UNCHANGED beside_pure
    \/ PureReturns /\ UNCHANGED beside_pure

SpecPure == InitPure /\ [][NextPure]_vars

\* SLIP frames sent to and received from a device.
InitSlip ==
    /\ backend = "usbfs"
    /\ claimed_interfaces = {}
    /\ InitXferVars /\ InitOtherVars

NextSlip ==
    \/ SendSlipFrame /\ UNCHANGED beside_slip
    \/ DeviceSends /\ UNCHANGED beside_slip
    \/ ReceiveRead /\ UNCHANGED beside_slip
    \/ ReceiveReadFails /\ UNCHANGED beside_slip
    \/ SlipOver /\ UNCHANGED beside_slip

SpecSlip == InitSlip /\ [][NextSlip]_vars

\* Calls on an FTDI helper over a usbfs handle.
InitFtdi ==
    /\ backend = "usbfs"
    /\ claimed_interfaces = {}
    /\ InitXferVars /\ InitOtherVars

NextFtdi ==
    \/ FtdiOpenDevice /\ UNCHANGED beside_ftdi
    \/ FtdiSetBaudRate /\ UNCHANGED beside_ftdi
    \/ FtdiReturns /\ UNCHANGED beside_ftdi
    \/ FtdiDrop /\ UNCHANGED beside_ftdi

SpecFtdi == InitFtdi /\ [][NextFtdi]_vars

\* Calls on an STM32 DFU helper over a usbfs handle.
InitDfu ==
    /\ backend = "usbfs"
    /\ claimed_interfaces = {}
    /\ InitXferVars /\ InitOtherVars

NextDfu ==
    \/ DfuMassErase /\ UNCHANGED beside_dfu
    \/ DfuWaitWhileBusy /\ UNCHANGED beside_dfu
    \/ DfuPoll /\ UNCHANGED beside_dfu
    \/ DfuSleep /\ UNCHANGED beside_dfu
    \/ DfuOver /\ UNCHANGED beside_dfu

SpecDfu == InitDfu /\ [][NextDfu]_vars

\* The same, where every get-status call returns and every sleep ends.
SpecDfuLive ==
    /\ InitDfu /\ [][NextDfu]_vars
    /\ WF_vars(DfuPoll /\ UNCHANGED beside_dfu)
    /\ WF_vars(DfuSleep /\ UNCHANGED beside_dfu)

\* Calls of ChannelLogger::write and ::read.
InitLogger ==
    /\ backend = "usbfs"
    /\ claimed_interfaces = {}
    /\ InitXferVars /\ InitOtherVars

NextLogger ==
    \/ LoggerWrite /\ UNCHANGED beside_logger
    \/ LoggerRead /\ UNCHANGED beside_logger
    \/ LoggerOver /\ UNCHANGED beside_logger

SpecLogger == InitLogger /\ [][NextLogger]_vars

\* Threads sharing one ChannelLogger.
InitLogThreads ==
    /\ backend = "usbfs"
    /\ claimed_interfaces = {}
    /\ InitXferVars /\ InitOtherVars

NextLogThreads ==
    \/ \E t \in LogThreads : LtCall(t) /\ UNCHANGED beside_log_threads
    \/ \E t \in LogThreads : LtTransferReturns(t) /\ UNCHANGED beside_log_threads
    \/ \E t \in LogThreads : LtLock(t) /\ UNCHANGED beside_log_threads
    \/ \E t \in LogThreads : LtWrite(t) /\ UNCHANGED beside_log_threads
    \/ LtOver /\ UNCHANGED beside_log_threads

SpecLogThreads == InitLogThreads /\ [][NextLogThreads]_vars

\* The bootloader handshake of an Esp32SerialBridge, on each backend.
InitBoot ==
    /\ backend \in Backends
    /\ claimed_interfaces = {}
    /\ InitXferVars /\ InitOtherVars

NextBoot ==
    \/ BootEnter /\ UNCHANGED beside_boot
    \/ BootSetLines /\ UNCHANGED beside_boot
    \/ BootSleep /\ UNCHANGED beside_boot
    \/ BootOver /\ UNCHANGED beside_boot

SpecBoot == InitBoot /\ [][NextBoot]_vars

\* References to IOKit device-interface pointers.
InitMac ==
    /\ backend = "iokit"
    /\ claimed_interfaces = {}
    /\ InitXferVars /\ InitOtherVars

NextMac ==
    \/ MacDevices /\ UNCHANGED beside_mac
    \/ \E d \in Devices : MacOpen(d) /\ UNCHANGED beside_mac
    \/ \E d \in Devices : MacDropHandle(d) /\ UNCHANGED beside_mac
    \/ MacDropList /\ UNCHANGED beside_mac
    \/ MacForget /\ UNCHANGED beside_mac

SpecMac == InitMac /\ [][NextMac]_vars

(***************************************************************************)
(* Properties of the transfer calls.                                       *)
(***************************************************************************)
RECURSIVE SumN(_)
SumN(cs) == IF cs = <<>> THEN 0 ELSE cs[1].n + SumN(Tail(cs))

IsPipeOp(c) == c.op \in {"bulk", "interrupt"}

\* The call's payload direction disagrees with bit 7 of its request_type / endpoint.
ControlMismatch(c) ==
    c.op = "control" /\ c.tag # "None" /\ c.tag # (IF (c.request_type \div 128) % 2 = 1 THEN "In" ELSE "Out")
PipeMismatch(c) ==
    IsPipeOp(c) /\ c.tag # (IF (c.endpoint \div 128) % 2 = 1 THEN "In" ELSE "Out")
PreconditionFails(c) ==
    ControlMismatch(c) \/ PipeMismatch(c) \/ (c.op = "control" /\ c.len > 65535)

\* The InvalidArgument error kind.  enum Error has no such variant; the usbfs
\* backend's invalid_argument() is Os(EINVAL), which is counted as that kind here.
IsInvalidArgument(r) ==
    IsErr(r) /\ (r.kind = "InvalidArgument" \/ (r.kind = "Os" /\ r.code = 22))

\* C1: every control_transfer call whose payload buffer (In or Out) has a
\* direction other than bit 7 of request.request_type is rejected with the
\* InvalidArgument error kind, on every backend.
C1_ControlMismatchIsInvalidArgument ==
    (xpc = "returned" /\ ControlMismatch(cur)) => IsInvalidArgument(result)

\* C2: every bulk_transfer or interrupt_transfer call whose endpoint bit 7
\* disagrees with the TransferBuffer tag is rejected with the InvalidArgument
\* error kind, on every backend.
C2_PipeMismatchIsInvalidArgument ==
    (xpc = "returned" /\ PipeMismatch(cur)) => IsInvalidArgument(result)

\* C3: on the usbfs, WinUSB and IOKit backends a transfer call that fails a
\* precondition (direction mismatch, control payload over 65535 bytes) returns
\* an error without having issued any backend call, and leaves the handle as
\* it was.
C3_PreconditionErrorsReachNoBackend ==
    [][(backend \in NativeBackends /\ xpc = "idle" /\ PreconditionFails(cur'))
       => (xpc' = "returned" /\ IsErr(result') /\ calls' = <<>> /\ handle_state' = handle_state)]_vars

C3_Witness ==
    /\ backend = "winusb" /\ xpc = "returned"
    /\ cur.op = "control" /\ cur.len = 65536 /\ ~ControlMismatch(cur) /\ ~is_zero(cur.timeout)
    /\ IsErr(result) /\ calls = <<>>

\* C4: a successful control, bulk or interrupt transfer returns a byte count
\* of at most the length of the buffer supplied; on usbfs this holds for the
\* running and final sum of a chunked transfer (each submission returning at
\* most the length it was given).
C4_CountAtMostBufferLength ==
    /\ (xpc = "returned" /\ IsOk(result)) => result.n <= cur.len
    /\ xpc = "chunks" => total <= cur.len

C4_Witness ==
    /\ backend = "usbfs" /\ xpc = "returned" /\ IsOk(result)
    /\ Len(calls) = 3 /\ result.n = cur.len /\ cur.len = 40960

\* The submissions of a usbfs bulk/interrupt transfer on a handle without the
\* no-packet-size-limit capability, with the sizes `full` named for a 40960-byte
\* transfer whose submissions all complete.
ChunkedSubmissions(full) ==
    (backend = "usbfs" /\ (caps \div 4) % 2 = 0 /\ IsPipeOp(cur)) =>
        /\ \A i \in 1 .. Len(calls) :
            /\ calls[i].op = "USBDEVFS_BULK"
            /\ calls[i].off = SumN(SubSeq(calls, 1, i - 1))
            /\ calls[i].len = Min(16384, cur.len - calls[i].off)
            /\ i < Len(calls) => (calls[i].ok /\ calls[i].n = calls[i].len)
        /\ (xpc = "returned" /\ IsOk(result)) => result.n = SumN(calls)
        /\ (xpc = "returned" /\ IsOk(result) /\ cur.len = 40960 /\ Len(calls) = 3) =>
              <<calls[1].len, calls[2].len, calls[3].len>> = full
        /\ (xpc = "returned" /\ IsOk(result) /\ cur.len = 40960
              /\ Len(calls) >= 2 /\ calls[2].n = 8192) =>
              (Len(calls) = 2 /\ result.n = 24576)

\* C5 as stated: on a usbfs handle without the no-packet-size-limit capability
\* the submissions of a bulk/interrupt transfer are consecutive: each starts
\* where the counts so far end and asks for min(16384, remaining); none
\* follows a submission that returned fewer bytes than requested; the total
\* reported is the sum of the counts; a 40960-byte transfer is submitted as
\* 16384, 16384, 7168, and when its second submission returns 8192 the total
\* is 24576 with no third submission.
C5_ChunkedSubmissionsAsStated == ChunkedSubmissions(<<16384, 16384, 7168>>)

\* C5, amended: the same, with the 40960-byte transfer submitted as 16384,
\* 16384, 8192 (the three sizes add up to the buffer's length).
C5_ChunkedSubmissions == ChunkedSubmissions(<<16384, 16384, 8192>>)

\* The 40960-byte transfer whose second submission returns 8192: two
\* submissions, 24576 bytes reported.
C5_Witness ==
    /\ backend = "usbfs" /\ (caps \div 4) % 2 = 0 /\ xpc = "returned"
    /\ cur.len = 40960 /\ Len(calls) = 2 /\ calls[2].n = 8192 /\ result = Ok(24576)

\* A backend call of the transfer ended in a timeout.
TimedOut == xpc = "returned" /\ calls # <<>> /\ calls[Len(calls)].cause = "timeout"

\* C10: a transfer that times out is reported with the Timeout error kind
\* (and the handle stays as it was, usable for the next transfer).
C10_TimeoutIsTimeoutKind ==
    TimedOut => (IsErr(result) /\ result.kind = "Timeout")

(***************************************************************************)
(* Properties of the claimed-interface map and of drop.                    *)
(***************************************************************************)
\* The leg of drop an OS call belongs to: 1 releasing a claimed interface,
\* 2 closing the device / primary interface, 3 closing the OS handle.
Stage(e) ==
    IF e.call \in {"USBDeviceClose"} THEN 2
    ELSE IF e.call = "WinUsb_Free" /\ e.id = primary.id THEN 2
    ELSE IF e.call = "CloseHandle" THEN 3
    ELSE IF e.call = "Release" /\ e.id = primary.id THEN 3
    ELSE 1

\* C6: when a handle is dropped after any claim_interface / release_interface
\* calls, the OS calls of drop are ordered: every interface still in the map
\* is released first, then the device / primary interface is closed, then the
\* OS handle is closed; no later leg comes before an earlier one.
C6_DropOrder ==
    /\ \A i, j \in DOMAIN drop_log : i < j => Stage(drop_log[i]) <= Stage(drop_log[j])
    /\ (\E i \in DOMAIN drop_log : Stage(drop_log[i]) >= 2) =>
          \A e \in claimed_interfaces :
              \/ (backend = "winusb" /\ e[2] = primary)
              \/ \E i \in DOMAIN drop_log : Stage(drop_log[i]) = 1 /\ drop_log[i].id = e[2].id
    /\ dpc = "dropped" =>
          /\ Len(drop_log) >= 2
          /\ Stage(drop_log[Len(drop_log)]) = 3
          /\ Stage(drop_log[Len(drop_log) - 1]) = 2
          /\ Cardinality({i \in DOMAIN drop_log : Stage(drop_log[i]) >= 2}) = 2

\* A handle dropped with two interfaces claimed, after a release.
C6_Witness ==
    /\ dpc = "dropped" /\ Cardinality(claimed_interfaces) = 2
    /\ \E i \in DOMAIN drop_log : Stage(drop_log[i]) = 1
    /\ \E id \in HandleIds : id # primary.id /\ free_count[id] = 1
                               /\ \A i \in DOMAIN drop_log : drop_log[i].id # id

\* C7: in every state reached by claim_interface / release_interface calls on
\* a handle, the claimed-interface map holds at most one entry per interface
\* number and no entry whose interface handle was released.
C7_ClaimedMapSound ==
    dpc = "live" =>
        /\ \A e1, e2 \in claimed_interfaces : e1[1] = e2[1] => e1 = e2
        /\ \A e \in claimed_interfaces : free_count[e[2].id] = 0

\* An interface claimed again after its release: the map holds the new handle,
\* the old one is freed.
C7_Witness ==
    /\ dpc = "live"
    /\ \E e \in claimed_interfaces :
        \E id \in HandleIds : id < e[2].id /\ free_count[id] = 1
                                /\ last = Last("claim", e[1], Ok(0))
    /\ Cardinality(claimed_interfaces) = 2

\* C8: concurrent claim_interface, release_interface and
\* set_interface_alt_setting calls on one handle exclude each other on the
\* map: a call holds the lock from its lookup until its insert, removal or use
\* is done, so at most one call is between the two, no thread uses a handle
\* that was released, and no inserted handle is lost to a second insert.
C8_MapOpsMutuallyExclusive ==
    /\ \A t1, t2 \in Threads : (tpc[t1] # "idle" /\ tpc[t2] # "idle") => t1 = t2
    /\ \A t \in Threads : tpc[t] # "idle" => lock = t
    /\ \A t \in Threads : tpc[t] \in {"alt_use", "release_free"} => free_count[theld[t].id] = 0
    /\ dpc = "live" =>
          \A id \in HandleIds :
              (id # primary.id /\ id < next_id /\ free_count[id] = 0) =>
                  \/ \E e \in claimed_interfaces : e[2].id = id
                  \/ \E t \in Threads : theld[t].id = id

\* One thread is inside set_interface_alt_setting with the lock, after another
\* call released an interface.
C8_Witness ==
    /\ \E t \in Threads : tpc[t] = "alt_use" /\ lock = t /\ theld[t] # NoHandle
    /\ last.op = "release" /\ IsOk(last.result)

(***************************************************************************)
(* Properties of open.                                                     *)
(***************************************************************************)
\* C9: on every backend, when open returns an error, every OS handle or
\* reference acquired during that call has been released again.
C9_OpenErrorReleasesAll ==
    IsErr(open_call.result) =>
        \A k \in ResourceKinds : Count(open_call.acquired, k) <= Count(open_call.released, k)

(***************************************************************************)
(* Properties of the usbfs error translation.                              *)
(***************************************************************************)
\* The error kind the taxonomy gives an errno: ENOENT (2) or ENODEV is
\* Disconnected, ETIMEDOUT is Timeout, EINVAL is InvalidArgument, any other
\* errno is Io.
TaxonomyKind(errno) ==
    IF errno \in {2, ENODEV} THEN "Disconnected"
    ELSE IF errno = ETIMEDOUT THEN "Timeout"
    ELSE IF errno = EINVAL THEN "InvalidArgument"
    ELSE "Io"

\* The last backend call of the usbfs transfer that returned was a failed ioctl.
UsbfsIoctlFailed ==
    backend = "usbfs" /\ xpc = "returned" /\ calls # <<>> /\ ~calls[Len(calls)].ok

\* C11: on the usbfs backend a failed control or bulk ioctl is translated by
\* its errno: ENOENT or ENODEV gives Disconnected, ETIMEDOUT gives Timeout,
\* EINVAL gives InvalidArgument, every other errno gives Io(errno) (the Os
\* variant carrying the errno is counted as Io).
C11_ErrnoTranslation ==
    UsbfsIoctlFailed =>
        LET errno == NativeCode("usbfs", calls[Len(calls)].cause)
        IN /\ IsErr(result)
           /\ IF TaxonomyKind(errno) = "Io"
              THEN result.kind \in {"Io", "Os"} /\ result.code = errno
              ELSE result.kind = TaxonomyKind(errno)

(***************************************************************************)
(* Properties of the timeout conversion.                                   *)
(***************************************************************************)
\* Where a duration's millisecond count secs * 1000 + nanos / 10^6 lies:
\* below 2^31 (2147483.648 s), below 3 * 2^30 (3221225.472 s), at 2^32 - 1
\* (4294967.295 s) or above.
MillisBelow2p31(d) == d.secs < 2147483 \/ (d.secs = 2147483 /\ d.nanos \div 1000000 < 648)
MillisBelow3p30(d) == d.secs < 3221225 \/ (d.secs = 3221225 /\ d.nanos \div 1000000 < 472)
MillisSaturate(d) == d.secs > 4294967 \/ (d.secs = 4294967 /\ d.nanos \div 1000000 >= 295)

\* m, a 32-bit value in two limbs, is the duration's millisecond count
\* saturated at 2^32 - 1 (4294967295); the count is compared after taking
\* 0, 2^31 or 3 * 2^30 off both sides.
IsSaturatedMillis(m, d) ==
    /\ m[1] \in 0 .. 65535 /\ m[2] \in 0 .. 65535
    /\ IF MillisSaturate(d) THEN m = <<65535, 65535>>
       ELSE IF MillisBelow2p31(d)
       THEN /\ m[1] < 32768
            /\ m[1] * 65536 + m[2] = d.secs * 1000 + d.nanos \div 1000000
       ELSE IF MillisBelow3p30(d)
       THEN /\ m[1] \in 32768 .. 49151
            /\ (m[1] - 32768) * 65536 + m[2]
                  = (d.secs - 2147483) * 1000 + d.nanos \div 1000000 - 648
       ELSE /\ m[1] >= 49152
            /\ (m[1] - 49152) * 65536 + m[2]
                  = (d.secs - 3221225) * 1000 + d.nanos \div 1000000 - 472

\* C12: the caller's timeout is mapped to a 32-bit millisecond value: a zero
\* duration maps to 0 (no timeout), a positive duration to its millisecond
\* count saturated at 2^32 - 1 (usbfs duration_to_timeout, IOKit
\* timeout_components, both of whose components carry the value).
C12_TimeoutMillisSaturating ==
    pcall.fn = "duration_to_timeout" =>
        /\ (is_zero(pcall.arg) => (pret.usbfs = <<0, 0>> /\ pret.iokit = <<(<<0, 0>>), (<<0, 0>>)>>))
        /\ IsSaturatedMillis(pret.usbfs, pcall.arg)
        /\ IsSaturatedMillis(pret.iokit[1], pcall.arg)
        /\ pret.iokit[2] = pret.iokit[1]

\* A duration past 2^32 - 1 milliseconds was converted, to the saturated value.
C12_Witness ==
    /\ pcall.fn = "duration_to_timeout" /\ pcall.arg.secs = 4294968
    /\ pret.usbfs = <<65535, 65535>> /\ pret.iokit[1] = <<65535, 65535>>

(***************************************************************************)
(* Properties of the WinUSB pipe timeout policy.                           *)
(***************************************************************************)
\* C13: on the WinUSB backend a control, bulk or interrupt transfer called
\* with a zero timeout runs with no timeout (pipe timeout policy 0 in force
\* for its WinUSB call), whatever transfers were made before on the handle
\* and endpoint, including one that set a non-zero policy.
C13_ZeroTimeoutRunsWithoutTimeout ==
    (backend = "winusb" /\ xpc = "returned" /\ is_zero(cur.timeout) /\ calls # <<>>) =>
        /\ calls[Len(calls)].op \in {"WinUsb_ControlTransfer", "WinUsb_ReadPipe", "WinUsb_WritePipe"}
        /\ calls[Len(calls)].timeout = <<0, 0>>

(***************************************************************************)
(* Properties of the sysfs attribute parser.                               *)
(***************************************************************************)
\* The text without the whitespace around it.
RECURSIVE Core(_)
Core(s) ==
    IF s = <<>> THEN s
    ELSE IF s[1] \in {" ", "\n"} THEN Core(Tail(s))
    ELSE IF s[Len(s)] \in {" ", "\n"} THEN Core(SubSeq(s, 1, Len(s) - 1))
    ELSE s

\* The value of a string of digits "0", "1", "a"/"A" (ten) in a radix.
RECURSIVE DigitsValue(_, _)
DigitsValue(s, radix) ==
    IF s = <<>> THEN 0
    ELSE DigitsValue(SubSeq(s, 1, Len(s) - 1), radix) * radix
            + (IF s[Len(s)] = "0" THEN 0 ELSE IF s[Len(s)] = "1" THEN 1 ELSE 10)

IsDecimal(s) == s # <<>> /\ \A i \in DOMAIN s : s[i] \in {"0", "1"}
IsHex(s) == s # <<>> /\ \A i \in DOMAIN s : s[i] \in {"0", "1", "a", "A"}
\* The text after an optional 0x / 0X.
Unprefixed(s) ==
    IF Len(s) >= 2 /\ s[1] = "0" /\ s[2] \in {"x", "X"} THEN SubSeq(s, 3, Len(s)) ELSE s

\* What the parser is to return for text without a sign: the decimal value
\* if the text is decimal digits and fits, else the hexadecimal value of the
\* text after an optional 0x/0X if that is hex digits and fits, else an error.
ExpectedParse(core, max) ==
    IF IsDecimal(core) /\ DigitsValue(core, 10) <= max THEN Ok(DigitsValue(core, 10))
    ELSE IF IsHex(Unprefixed(core)) /\ DigitsValue(Unprefixed(core), 16) <= max
    THEN Ok(DigitsValue(Unprefixed(core), 16))
    ELSE ErrorUnknown

\* C14: the sysfs attribute parser returns 10 for "10", "0x0A", "0a" and
\* "0X0A", with or without whitespace around them; it tries decimal first and
\* hexadecimal (with an optional 0x/0X prefix) second, and returns an error
\* when neither parse succeeds.
C14_AttributeParser ==
    pcall.fn = "parse_numeric_auto" =>
        LET core == Core(pcall.arg)
        IN /\ core \in {<<"1", "0">>, <<"0", "x", "0", "A">>, <<"0", "a">>, <<"0", "X", "0", "A">>}
                => (pret.u8 = Ok(10) /\ pret.u16 = Ok(10))
           /\ (\A i \in DOMAIN core : core[i] # "+") =>
                (pret.u8 = ExpectedParse(core, 255) /\ pret.u16 = ExpectedParse(core, 65535))
           /\ pret.u8 \in {ErrorUnknown} \cup {Ok(n) : n \in 0 .. 255}

\* "0x0A" between a space and a newline was parsed, to 10.
C14_Witness ==
    /\ pcall.fn = "parse_numeric_auto"
    /\ pcall.arg = <<" ", "0", "x", "0", "A", "\n">>
    /\ pret.u8 = Ok(10) /\ pret.u16 = Ok(10)

(***************************************************************************)
(* SLIP framing.                                                           *)
(***************************************************************************)
\* A frame was sent and came back on the wire.
FrameSent == spc # "idle" /\ IsOk(tx)

\* receive_slip_frame ended on a failed read.
ReadFailed == IsErr(rx) /\ rx.kind = "Os"

\* C15: once receive_slip_frame has been fed the whole frame that
\* send_slip_frame(P) wrote, it has returned exactly P -- for every payload P,
\* the empty one included.
C15_SlipRoundTrip ==
    (FrameSent /\ rx_pos = Len(wire) /\ ~ReadFailed) => rx = OkBytes(slip_payload)

RECURSIVE Flatten(_)
Flatten(pieces) == IF pieces = <<>> THEN <<>> ELSE pieces[1] \o Flatten(Tail(pieces))

\* The payload with every END replaced by ESC ESC_END and every ESC by ESC ESC_ESC.
Stuffed(payload) ==
    Flatten([i \in 1 .. Len(payload) |->
                CASE payload[i] = 192 -> <<219, 220>>
                  [] payload[i] = 219 -> <<219, 221>>
                  [] OTHER -> <<payload[i]>>])

\* C16: the frame written for a payload is 0xC0, the payload with 0xC0 as
\* 0xDB 0xDC and 0xDB as 0xDB 0xDD, then 0xC0; 0xC0 occurs in it only as the
\* first and the last byte; [0xC0, 0x01, 0xDB] gives
\* [0xC0, 0xDB, 0xDC, 0x01, 0xDB, 0xDD, 0xC0].
C16_FrameLayout ==
    FrameSent =>
        /\ wire = <<192>> \o Stuffed(slip_payload) \o <<192>>
        /\ \A i \in 1 .. Len(wire) : wire[i] = 192 <=> i \in {1, Len(wire)}
        /\ slip_payload = <<192, 1, 219>> => wire = <<192, 219, 220, 1, 219, 221, 192>>

C16_Witness ==
    /\ FrameSent
    /\ slip_payload = <<192, 1, 219>>
    /\ wire = <<192, 219, 220, 1, 219, 221, 192>>

\* What receive_slip_frame would have made of the bytes taken so far had they
\* all come in one read.
InOneRead == slip_feed(DecoderStart, SubSeq(wire, 1, rx_pos))

\* C17: however the incoming bytes are split across reads (of at most 64
\* bytes, some of them empty, some ending between 0xDB and the byte after
\* it), receive_slip_frame returns what it returns for the unsplit stream, and
\* until it returns its started/escaped state and packet are those of the
\* unsplit stream.
C17_SplitInvariant ==
    (spc # "idle" /\ ~ReadFailed) =>
        /\ rx = InOneRead.result
        /\ spc = "receiving" => dec = InOneRead.dec

\* C17 witness: a frame longer than one read came back whole after an empty
\* read and a read that ended on the 0xDB of an escape pair.
C17_Witness ==
    /\ spc = "returned"
    /\ IsOk(rx)
    /\ Len(wire) > SLIP_READ_LEN
    /\ read_marks.zero
    /\ read_marks.after_esc
    /\ IsOk(tx)
    /\ rx = OkBytes(slip_payload)

(***************************************************************************)
(* The FTDI baud rate divisor.                                             *)
(***************************************************************************)
\* set_baud_rate has returned.
BaudRateSet == fpc = "returned" /\ fcall.op = "set_baud_rate"

\* diff is less than 3.1 percent of rate: 1000 * diff < 31 * rate, computed
\* without leaving 32 bits.
BelowPerMille31(diff, rate) ==
    diff <= 31 * (rate \div 1000) + (31 * (rate % 1000) - 1) \div 1000

Distance(a, b) == IF a < b THEN b - a ELSE a - b

\* The divisor a set-baud-rate request carries: value, and bit 0 of index above it.
RequestedDivisor(request) == request.value + 65536 * (request.index % 2)

\* C18: for a baud rate B > 0 the divisor D is in 1 .. 0x1FFFF and, whenever
\* 24000000 / B is at most 0x1FFFF, 24000000 / D is less than 3.1 percent of B
\* away from B; for B = 0 there is no divisor and set_baud_rate fails without
\* a control transfer.
C18_DivisorRangeAndAccuracy ==
    BaudRateSet =>
        IF fcall.baud = 0
        THEN IsErr(fret) /\ flog = <<>>
        ELSE /\ Len(flog) = 1
             /\ LET D == RequestedDivisor(flog[1].request)
                IN /\ D = compute_ftdi_divisor(fcall.baud).v
                   /\ 1 <= D /\ D <= 131071
                   /\ 24000000 \div fcall.baud <= 131071 =>
                        BelowPerMille31(Distance(24000000 \div D, fcall.baud), fcall.baud)

\* C19: set_baud_rate(B) hands the handle exactly one control transfer without
\* payload; its value is the low 16 bits of the divisor D, the high byte of
\* its index carries the interface number, and bit 16 of D is the top bit of
\* the index; for B = 9600 the value is 2500 and the index is the interface
\* number shifted into the high byte, all other bits zero.
C19_BaudRequestLayout ==
    (BaudRateSet /\ fcall.baud > 0) =>
        /\ Len(flog) = 1
        /\ flog[1].data.tag = "None"
        /\ LET D == compute_ftdi_divisor(fcall.baud).v
               request == flog[1].request
           IN /\ request.value = D % 65536
              /\ (request.index \div 256) % 128 = ftdi.interface % 128
              /\ D >= 65536 => request.index \div 32768 = 1
              /\ fcall.baud = 9600 =>
                    request.value = 2500 /\ request.index = ftdi.interface * 256

(***************************************************************************)
(* String descriptors.                                                     *)
(***************************************************************************)
\* read_string_descriptor_ascii has returned (or panicked) after a transfer
\* that delivered the bytes pcall.arg.desc.
DescriptorRead ==
    /\ pcall.fn = "read_string_descriptor_ascii"
    /\ IsOk(pcall.arg.read)

\* The header bytes as the function finds them in its buffer.
HeaderLength == buf_at(pcall.arg.desc, 0)
HeaderType == buf_at(pcall.arg.desc, 1)

\* The descriptor is a header declaring exactly the bytes delivered, of type
\* 0x03, followed by N ASCII code units.
WellFormedAscii(N) ==
    /\ Len(pcall.arg.desc) = 2 + 2 * N
    /\ HeaderLength = Len(pcall.arg.desc)
    /\ HeaderType = 3
    /\ \A i \in 1 .. N : pcall.arg.desc[2 * i + 1] < 128 /\ pcall.arg.desc[2 * i + 2] = 0

\* C20: read_string_descriptor_ascii fails with Unknown -- no panic, no
\* string -- whenever the header's length byte is below 2 or its type byte is
\* not 0x03; a well-formed descriptor of N code units gives a string of
\* length N.
C20_StringDescriptorAscii ==
    DescriptorRead =>
        /\ (HeaderLength < 2 \/ HeaderType # 3) => pret = ErrorUnknown
        /\ \A N \in 0 .. MaxUnits :
                WellFormedAscii(N) => IsOk(pret) /\ Len(pret.chars) = N

\* The descriptor delivered is a type 0x03 header declaring exactly the bytes
\* delivered, followed by whole code units.
WholeStringDescriptor ==
    /\ DescriptorRead
    /\ Len(pcall.arg.desc) >= 2
    /\ Len(pcall.arg.desc) % 2 = 0
    /\ HeaderLength = Len(pcall.arg.desc)
    /\ HeaderType = 3

\* Its code units' low and high bytes.
LowBytes == [i \in 1 .. (Len(pcall.arg.desc) - 2) \div 2 |-> pcall.arg.desc[2 * i + 1]]
HighBytes == [i \in 1 .. (Len(pcall.arg.desc) - 2) \div 2 |-> pcall.arg.desc[2 * i + 2]]

\* C21: read_string_descriptor_ascii returns, for each code unit, the
\* character of its low byte, and fails whenever some code unit of the
\* descriptor has a non-zero high byte.
C21_AsciiOnly ==
    WholeStringDescriptor =>
        IF \E i \in DOMAIN HighBytes : HighBytes[i] # 0
        THEN IsErr(pret)
        ELSE pret = OkString(LowBytes)

(***************************************************************************)
(* The STM32 DFU helper.                                                   *)
(***************************************************************************)
\* The k-th event of the call was a get-status poll that succeeded and left
\* a non-zero status byte in the buffer.
BusyPoll(k) ==
    /\ dfu_log[k].op = "get_status"
    /\ dfu_log[k].ok
    /\ dfu_log[k].buf[1] # 0

\* The k-th event was a get-status poll that succeeded and left status 0.
IdlePoll(k) ==
    /\ dfu_log[k].op = "get_status"
    /\ dfu_log[k].ok
    /\ dfu_log[k].buf[1] = 0

\* The 24-bit little-endian number in status bytes 1..3.
PollTimeoutMs(buf) == buf[2] + buf[3] * 256 + buf[4] * 256 * 256

\* Every poll but the last found a non-zero status and was followed by a
\* sleep of the poll timeout it reported; every sleep follows such a poll.
SleepsBetweenPolls ==
    \A k \in 1 .. Len(dfu_log) :
        /\ (dfu_log[k].op = "get_status" /\ k < Len(dfu_log)) =>
                /\ BusyPoll(k)
                /\ dfu_log[k + 1].op = "sleep"
                /\ dfu_log[k + 1].ms = PollTimeoutMs(dfu_log[k].buf)
        /\ dfu_log[k].op = "sleep" => (k > 1 /\ BusyPoll(k - 1))

\* wait_while_busy (alone or within mass_erase) has returned after a poll.
WaitReturned ==
    /\ dfu_pc = "returned"
    /\ dfu_log # <<>>
    /\ dfu_log[Len(dfu_log)].op = "get_status"

\* C22: wait_while_busy polls get-status, sleeping the 24-bit little-endian
\* poll timeout of status bytes 1..3 between polls; it returns success on the
\* first poll whose status byte 0 is zero, and returns the Timeout error kind
\* when a poll finds a non-zero status after the wall-clock bound was exceeded.
C22_WaitWhileBusy ==
    dfu_call.op # "none" =>
        /\ SleepsBetweenPolls
        /\ WaitReturned =>
            /\ IdlePoll(Len(dfu_log)) => dfu_ret = Ok(0)
            /\ (BusyPoll(Len(dfu_log)) /\ dfu_elapsed > dfu_call.timeout) =>
                    (IsErr(dfu_ret) /\ dfu_ret.kind = "Timeout")

\* mass_erase is in progress or has returned.
MassErasing == dfu_call.op = "mass_erase"

\* C23: mass_erase first issues one DFU download (request 1, block 0) with
\* payload [0x41, 0x00]; get-status polls come only after that download
\* succeeded and are bounded by 5 seconds; a failed download is returned with
\* no get-status issued; a poll reporting non-zero status is followed by a
\* sleep of the poll timeout it reported before the next poll.
C23_MassEraseOrder ==
    MassErasing =>
        /\ dfu_log # <<>>
        /\ dfu_log[1].op = "download"
        /\ dfu_log[1].request.request = 1
        /\ dfu_log[1].request.value = 0
        /\ dfu_log[1].payload = <<65, 0>>
        /\ \A k \in 2 .. Len(dfu_log) : dfu_log[k].op # "download"
        /\ ~dfu_log[1].ok => (Len(dfu_log) = 1 /\ dfu_pc = "returned" /\ IsErr(dfu_ret))
        /\ dfu_call.timeout = 5000
        /\ dfu_pc = "sleep" => dfu_elapsed <= 5000
        /\ (WaitReturned /\ BusyPoll(Len(dfu_log))) => dfu_elapsed > 5000
        /\ SleepsBetweenPolls

\* C23 witness: the download succeeded, a poll reported busy with a 5000 ms
\* poll timeout, mass_erase slept that long, and the next poll ended it.
C23_Witness ==
    /\ MassErasing
    /\ dfu_pc = "returned"
    /\ Len(dfu_log) = 4
    /\ dfu_log[1].ok
    /\ BusyPoll(2)
    /\ dfu_log[3].op = "sleep" /\ dfu_log[3].ms = 5000
    /\ IdlePoll(4)
    /\ dfu_ret = Ok(0)

(***************************************************************************)
(* usbfs enumeration and device descriptors.                               *)
(***************************************************************************)
\* devices() was called on a directory whose entries could all be listed.
TreeEnumerated ==
    /\ pcall.fn = "devices"
    /\ pcall.arg.read_dir_ok
    /\ \A i \in DOMAIN pcall.arg.tree : pcall.arg.tree[i].entry_ok

\* The entries that have both a busnum and a devnum attribute, in order.
HasBoth(node) == node.busnum # Absent /\ node.devnum # Absent
RECURSIVE NodesWithBoth(_, _)
NodesWithBoth(tree, i) ==
    IF i > Len(tree) THEN <<>>
    ELSE (IF HasBoth(tree[i]) THEN <<i>> ELSE <<>>) \o NodesWithBoth(tree, i + 1)

\* C24: usbfs enumeration returns one device per sysfs node that has both a
\* busnum and a devnum attribute and skips every node lacking either; a tree
\* with no such node (empty, or interface nodes only) gives a successful
\* result with an empty list.
C24_OneDevicePerNode ==
    TreeEnumerated =>
        /\ IsOk(pret)
        /\ [i \in DOMAIN pret.devices |-> pret.devices[i].sysfs_path]
                = NodesWithBoth(pcall.arg.tree, 1)

\* C24 witness: a tree of a device, a node with only one of the attributes
\* and an interface node gave a list of the one device.
C24_Witness ==
    /\ TreeEnumerated
    /\ Len(pcall.arg.tree) = 3
    /\ HasBoth(pcall.arg.tree[1])
    /\ pcall.arg.tree[2].busnum # Absent /\ pcall.arg.tree[2].devnum = Absent
    /\ pcall.arg.tree[3].busnum = Absent /\ pcall.arg.tree[3].devnum = Absent
    /\ IsOk(pret)
    /\ Len(pret.devices) = 1

\* The attribute files a get_device_descriptor call found absent.
AbsentAttrs == {a \in AttrNames : pcall.arg[a] = Absent}

\* C26: on usbfs get_device_descriptor succeeds and reports 0 for each of
\* iProduct, iSerialNumber and bNumConfigurations whose attribute file is
\* absent.
C26_AbsentAttributesReadZero ==
    (pcall.fn = "get_device_descriptor"
        /\ AbsentAttrs \subseteq {"iProduct", "iSerialNumber", "bNumConfigurations"}) =>
        /\ IsOk(pret)
        /\ "iProduct" \in AbsentAttrs => pret.fields["product_string_index"] = 0
        /\ "iSerialNumber" \in AbsentAttrs => pret.fields["serial_number_string_index"] = 0
        /\ "bNumConfigurations" \in AbsentAttrs => pret.fields["num_configurations"] = 0

(***************************************************************************)
(* usbfs open.                                                             *)
(***************************************************************************)
\* open was called on the usbfs backend.
UsbfsOpened == backend = "usbfs" /\ open_call.dev # 0

\* The errno of an attempt the OS refused: EACCES for permission-denied,
\* ENOENT for a missing node.
AnswerErrno(answer) == IF answer = "denied" THEN 13 ELSE 2

\* C25: usbfs open first tries the device node read-write; only when that
\* fails with permission-denied does it retry read-only, and the retry's
\* error, if any, is returned; every other read-write failure is returned
\* without a retry; a failed capabilities query does not fail the open and
\* leaves the cached capabilities at 0, so bulk transfers are chunked at
\* 16384 bytes.
C25_UsbfsOpenFallback ==
    UsbfsOpened =>
        LET a == open_call.os.attempts
            final == a[Len(a)]
        IN /\ Len(a) \in {1, 2}
           /\ a[1].mode = "rw"
           /\ Len(a) = 2 <=> a[1].answer = "denied"
           /\ Len(a) = 2 => a[2].mode = "ro"
           /\ IF final.answer = "ok"
              THEN /\ IsOk(open_call.result)
                   /\ open_call.mode = final.mode
                   /\ ~open_call.os.caps_ok =>
                        (open_call.caps = 0 /\ max_bulk_chunk(open_call.caps) = 16384)
              ELSE open_call.result = ErrorOs(AnswerErrno(final.answer))

\* C25 witness: read-write was refused for lack of permission, read-only
\* succeeded, the capabilities query failed, and open returned a handle with
\* capabilities 0.
C25_Witness ==
    /\ UsbfsOpened
    /\ Len(open_call.os.attempts) = 2
    /\ open_call.os.attempts[2].answer = "ok"
    /\ ~open_call.os.caps_ok
    /\ IsOk(open_call.result)
    /\ open_call.mode = "ro"
    /\ open_call.caps = 0

(***************************************************************************)
(* Transfers on the WebUSB backend.                                        *)
(***************************************************************************)
\* A control transfer on the WebUSB backend has returned.
WebControlReturned == backend = "webusb" /\ xpc = "returned" /\ cur.op = "control"

\* C28: on the browser backend control_transfer rejects a payload whose
\* direction differs from bit 7 of request_type, and a payload longer than
\* 65535 bytes, before any browser control-transfer call is made.
C28_WebControlPreconditions ==
    (WebControlReturned /\ (ControlMismatch(cur) \/ (cur.tag # "None" /\ cur.len > 65535))) =>
        (IsErr(result) /\ calls = <<>>)

\* A bulk or interrupt transfer on the WebUSB backend made its browser call.
WebPipeCalled == backend = "webusb" /\ xpc = "returned" /\ IsPipeOp(cur) /\ calls # <<>>

\* C29: on the browser backend bulk_transfer and interrupt_transfer pass
\* transferIn / transferOut the endpoint number formed from the low 7 bits of
\* the endpoint address, choosing transferIn or transferOut from the buffer
\* tag; a transfer result whose status is not "ok" is returned as Unknown.
C29_WebPipeCall ==
    WebPipeCalled =>
        /\ Len(calls) = 1
        /\ calls[1].op = (IF cur.tag = "In" THEN "transferIn" ELSE "transferOut")
        /\ calls[1].ep = cur.endpoint % 128
        /\ (calls[1].ok /\ calls[1].status # "ok") => result = ErrorUnknown

(***************************************************************************)
(* Opening a device on the WebUSB backend.                                 *)
(***************************************************************************)
\* An open on the WebUSB backend has returned.
WebOpened == backend = "webusb" /\ open_call # NoOpenCall

\* The claimInterface calls the open made, in the order it made them.
ClaimCalls == SelectSeq(open_call.os.attempts, LAMBDA c : c.mode = "claimInterface")

\* C27: the browser open ensures the device is open, selects the first
\* configuration when none is active, and then claims every interface of the
\* active configuration in order; an already-claimed failure is passed over
\* and the remaining interfaces are still attempted, any other claim failure
\* stops the open and is returned.
C27_WebOpenClaimsInOrder ==
    WebOpened =>
        LET log == open_call.os.attempts
            cl == ClaimCalls
        IN /\ \A j \in DOMAIN log :
                /\ log[j].mode = "open" => j = 1
                /\ log[j].mode = "selectConfiguration" =>
                       /\ log[j].arg = 1
                       /\ \A i \in 1..(j - 1) : log[i].mode = "open"
                /\ log[j].mode = "open" /\ log[j].answer # "ok" =>
                       /\ j = Len(log)
                       /\ IsErr(open_call.result)
                /\ log[j].mode = "selectConfiguration" /\ log[j].answer # "ok" =>
                       /\ j = Len(log)
                       /\ IsErr(open_call.result)
           /\ \A k \in DOMAIN cl :
                /\ cl[k].arg = k - 1
                /\ cl[k].answer = "InvalidStateError" /\ k < open_call.os.interfaces =>
                       k + 1 \in DOMAIN cl
                /\ cl[k].answer = "ok" /\ k < open_call.os.interfaces =>
                       k + 1 \in DOMAIN cl
                /\ cl[k].answer = "NetworkError" =>
                       /\ k = Len(cl)
                       /\ open_call.result = js_to_error([cause |-> "stall"])
           /\ IsOk(open_call.result) =>
                /\ held[open_call.dev]["opened"] > 0
                /\ Len(cl) = open_call.os.interfaces
                /\ \A k \in DOMAIN cl : cl[k].answer \in {"ok", "InvalidStateError"}

\* An open that found its first interface already claimed, went on to claim
\* the second, and succeeded after opening and configuring the device.
C27_Witness ==
    /\ WebOpened
    /\ IsOk(open_call.result)
    /\ Len(open_call.os.attempts) = 4
    /\ open_call.os.attempts[2].mode = "selectConfiguration"
    /\ Len(ClaimCalls) = 2
    /\ ClaimCalls[1].answer = "InvalidStateError"
    /\ ClaimCalls[2].answer = "ok"

(***************************************************************************)
(* ChannelLogger.                                                          *)
(***************************************************************************)
\* A write or read of the logger returned after its transfer succeeded.
LoggedTransferDone == log_pc = "returned" /\ IsOk(log_call.transfer)

\* C30: in ChannelLogger::write and ::read a failure of the log sink does not
\* change the outcome of the transfer that already succeeded: the caller
\* still receives the byte count.
C30_SinkFailureKeepsCount ==
    LoggedTransferDone => log_ret = Ok(log_call.transfer.n)

(***************************************************************************)
(* ChannelLogger shared by threads.                                        *)
(***************************************************************************)
\* The pieces of its line a thread has written so far.
WrittenBy(t) ==
    IF lt[t].written = 0 THEN <<>> ELSE SubSeq(thread_pieces(lt[t]), 1, lt[t].written)

\* The thread's transfer succeeded and its call has returned.
TransferLogged(t) == lt[t].pc = "returned" /\ IsOk(lt[t].transfer)

\* The thread's line is in the sink whole: label, timestamp, the hex dump of
\* exactly the bytes transferred, newline.
WholeLine(t) == lt[t].written = lt[t].transfer.n + 2

\* The sink holds the threads' lines one after the other, in some order.
LinesInSequence ==
    \E a \in LogThreads, b \in LogThreads :
        a # b /\ log_sink = WrittenBy(a) \o WrittenBy(b)

\* A failed transfer appends nothing and its error is the call's result.
FailedTransfersLogNothing ==
    \A t \in LogThreads :
        (lt[t].pc = "returned" /\ IsErr(lt[t].transfer)) =>
            (lt[t].written = 0 /\ lt[t].ret = lt[t].transfer)

\* The guard is taken after the transfer has returned.
NoLockDuringTransfer ==
    \A t \in LogThreads : lt[t].pc \in {"transfer", "lock"} => sink_owner # t

LineStates == SelectSeq(boot_log, LAMBDA e : e.op = "control")

\* (DTR, RTS) = (off, on), (on, on), (on, off), (off, off) as values with DTR
\* in bit 0 and RTS in bit 1.
HandshakeValues == <<2, 3, 1, 0>>

\* C32: enter_bootloader_sequence issues exactly four SET_CONTROL_LINE_STATE
\* control transfers (request type 0x21, request 0x22, value = DTR in bit 0
\* and RTS in bit 1) in the order (DTR,RTS) = (off,on), (on,on), (on,off),
\* (off,off), with a 50 ms sleep between consecutive ones; if one of them
\* fails, the error is returned and none of the later ones is issued.
C32_BootloaderSequence ==
    /\ Len(LineStates) <= 4
    /\ \A k \in DOMAIN LineStates :
        /\ LineStates[k].request = [request_type |-> 33, request |-> 34,
                                    value |-> HandshakeValues[k], index |-> boot_iface]
        /\ LineStates[k].data.tag = "None"
    /\ \A i \in DOMAIN boot_log :
        /\ boot_log[i].op = (IF i % 2 = 1 THEN "control" ELSE "sleep")
        /\ boot_log[i].op = "sleep" => boot_log[i].ms = 50
        /\ (boot_log[i].op = "control" /\ IsErr(boot_log[i].result)) =>
               /\ i = Len(boot_log)
               /\ boot_pc = "returned"
               /\ boot_ret = boot_log[i].result
    /\ (boot_pc = "returned" /\ IsOk(boot_ret)) =>
        /\ Len(LineStates) = 4
        /\ Len(boot_log) = 7
        /\ \A k \in DOMAIN LineStates : IsOk(LineStates[k].result)

\* The handshake ran to its end: four line states, three sleeps, Ok.
C32_Witness ==
    /\ boot_pc = "returned" /\ IsOk(boot_ret)
    /\ Len(boot_log) = 7
    /\ boot_log[7].request.value = 0
    /\ boot_log[6].op = "sleep"

(***************************************************************************)
(* The interface a pipe transfer is issued on (IOKit).                     *)
(***************************************************************************)
\* A bulk or interrupt transfer with a well-directed buffer returned on IOKit.
IokitPipeReturned ==
    backend = "iokit" /\ xpc = "returned" /\ IsPipeOp(cur) /\ ~PipeMismatch(cur)

\* A claimed interface has a pipe with the call's endpoint address.
EndpointClaimed ==
    \E e \in claimed_interfaces :
        \E i \in DOMAIN IfacePipes(e[2].ifnum) : IfacePipes(e[2].ifnum)[i] = cur.endpoint

\* C33: on the IOKit backend a bulk or interrupt transfer fails when no
\* interface is claimed, and when several interfaces are claimed it is issued
\* on the claimed interface whose pipes include the requested endpoint
\* address, for every order in which the interfaces were claimed.
C33_IokitPipeOnMatchingInterface ==
    IokitPipeReturned =>
        /\ claimed_interfaces = {} => (IsErr(result) /\ calls = <<>>)
        /\ EndpointClaimed =>
              \E i \in DOMAIN calls : calls[i].op \in {"ReadPipeTO", "WritePipeTO"}

(***************************************************************************)
(* Hexadecimal attributes.                                                 *)
(***************************************************************************)
HexChars == {"0", "1", "a", "A"}

\* The digits of an attribute text: the trimmed text without a 0x / 0X prefix.
HexDigitsOf(value) ==
    LET t == trim(value)
    IN IF Len(t) >= 2 /\ t[1] = "0" /\ t[2] \in {"x", "X"} THEN SubSeq(t, 3, Len(t)) ELSE t

\* The value of a string of hexadecimal digits.
RECURSIVE HexValue(_)
HexValue(digits) ==
    IF digits = <<>> THEN 0
    ELSE 16 * HexValue(SubSeq(digits, 1, Len(digits) - 1))
         + (CASE digits[Len(digits)] = "0" -> 0 [] digits[Len(digits)] = "1" -> 1 [] OTHER -> 10)

\* parse_u16_auto was called on one to four hexadecimal digits, with or
\* without a prefix.
HexAttributeParsed ==
    /\ pcall.fn = "parse_numeric_auto"
    /\ Len(HexDigitsOf(pcall.arg)) \in 1..4
    /\ \A i \in DOMAIN HexDigitsOf(pcall.arg) : HexDigitsOf(pcall.arg)[i] \in HexChars

\* C34: for every string of hexadecimal digits, with or without a 0x prefix,
\* parse_u16_auto returns the value of the digits read as hexadecimal, also
\* for an un-prefixed attribute made only of the digits 0-9.
C34_HexAttributesReadAsHex ==
    HexAttributeParsed => pret.u16 = Ok(HexValue(HexDigitsOf(pcall.arg)))

(***************************************************************************)
(* Positive timeouts.                                                      *)
(***************************************************************************)
\* The timeout conversions were applied to a duration that is not zero.
PositiveDurationConverted == pcall.fn = "duration_to_timeout" /\ ~is_zero(pcall.arg)

\* C35: a non-zero timeout Duration is never mapped to the millisecond value
\* 0 that the backend reads as "no timeout": every positive duration,
\* including one shorter than one millisecond, yields a value of at least 1.
C35_PositiveTimeoutStaysPositive ==
    PositiveDurationConverted =>
        /\ pret.usbfs # Zero32
        /\ pret.winusb # Zero32
        /\ pret.iokit[1] # Zero32 /\ pret.iokit[2] # Zero32

(***************************************************************************)
(* Interface handles are freed once.                                       *)
(***************************************************************************)
\* The handles claim_interface calls have obtained from the OS so far.
Obtained == 2 .. (next_id - 1)

\* The handles the claimed-interface map holds.
InMap == {e[2].id : e \in claimed_interfaces}

\* C36: across every sequence of claim_interface, release_interface and a
\* final drop of the handle, each interface handle obtained by a claim is
\* freed exactly once (by the release that removes it or by the drop, never
\* by both and never zero times), the primary WinUSB interface handle is
\* freed exactly once even when it is also stored in the map, and an
\* associated interface handle obtained during a claim that does not match is
\* freed before the claim returns.
C36_HandlesFreedOnce ==
    /\ \A id \in HandleIds : free_count[id] <= 1
    /\ (dpc = "live" /\ lock = 0) =>
          /\ \A id \in Obtained : free_count[id] = (IF id \in InMap THEN 0 ELSE 1)
          /\ free_count[primary.id] = 0
    /\ dpc = "dropped" =>
          /\ \A id \in Obtained : free_count[id] = 1
          /\ free_count[primary.id] = 1

\* A WinUSB handle dropped with its primary interface handle in the map
\* beside an associated one, after a claim that freed a handle it passed over.
C36_Witness ==
    /\ backend = "winusb" /\ dpc = "dropped"
    /\ primary.id \in InMap
    /\ Cardinality(InMap) = 2
    /\ next_id > 3
    /\ \A id \in 1 .. (next_id - 1) : free_count[id] = 1

(***************************************************************************)
(* IOKit references.                                                       *)
(***************************************************************************)
\* The device list and every handle have been dropped.
AllDropped == mlist = "dropped" /\ \A d \in Devices : mhandles[d] = 0

\* C37: on the IOKit backend the reference count of each device-interface
\* pointer is balanced: after the device list and all handles are dropped, in
\* any order, no reference remains; no pointer is used after its last
\* release; a device whose descriptor fetch fails during enumeration or whose
\* open fails keeps no reference.
C37_IokitReferencesBalanced ==
    /\ AllDropped => \A d \in Devices : mref[d] = 0
    /\ \A d \in Devices : (d \in mlisted \/ mhandles[d] > 0) => mref[d] > 0
    /\ \A d \in Devices :
          mref[d] = (IF d \in mlisted THEN 1 ELSE 0) + mhandles[d]

(***************************************************************************)
(* A failed submission of a chunked transfer.                              *)
(***************************************************************************)
\* A usbfs bulk or interrupt transfer is in its chunk loop or has returned.
UsbfsChunked == backend = "usbfs" /\ IsPipeOp(cur) /\ xpc \in {"chunks", "returned"}

\* C38: in a chunked usbfs bulk/interrupt transfer, if a submission after the
\* first one fails, the whole transfer returns that error and issues no
\* further submission; the bytes moved by the earlier successful submissions
\* are not reported to the caller.
C38_FailedChunkEndsTransfer ==
    UsbfsChunked =>
        \A i \in DOMAIN calls :
            ~calls[i].ok =>
                /\ i = Len(calls)
                /\ xpc = "returned"
                /\ result = ErrorOs(NativeCode("usbfs", calls[i].cause))

\* A transfer whose first submission moved its 16384 bytes and whose second
\* failed: the error is returned.
C38_Witness ==
    /\ UsbfsChunked /\ xpc = "returned"
    /\ Len(calls) = 2
    /\ calls[1].ok /\ calls[1].n = 16384
    /\ ~calls[2].ok
    /\ total = 16384
    /\ IsErr(result)

(***************************************************************************)
(* Calls that leave the claimed-interface map alone.                       *)
(***************************************************************************)
\* The map has an entry for the interface number.
Claimed(n) == \E e \in claimed_interfaces : e[1] = n

\* A call on the live handle began and returned in one step: no thread moved
\* into a scan, a free or a use, and the lock was not taken.
ReturnedAtOnce ==
    /\ dpc = "live" /\ dpc' = "live"
    /\ tpc' = tpc /\ lock' = lock

\* A claim_interface that went through its scan returned.
ScanReturned == \E t \in Threads : tpc[t] = "claim_scan" /\ tpc'[t] = "idle"

\* C39: claim_interface on an interface number already in the map returns
\* success without any backend call and leaves the map unchanged;
\* claim_interface that finds no matching interface, and release_interface or
\* set_interface_alt_setting on an interface number not in the map, return an
\* error and leave the map unchanged.
C39_MapUntouched ==
    [][ /\ ReturnedAtOnce =>
            /\ claimed_interfaces' = claimed_interfaces
            /\ next_id' = next_id /\ free_count' = free_count
            /\ \/ last'.op = "claim" /\ Claimed(last'.ifnum) /\ last'.result = Ok(0)
               \/ last'.op \in {"release", "alt"} /\ ~Claimed(last'.ifnum)
                    /\ last'.result = ErrorNotSupported
        /\ \A t \in Threads :
            /\ (tpc[t] = "idle" /\ tpc'[t] = "claim_scan") => ~Claimed(targ'[t])
            /\ (tpc[t] = "idle" /\ tpc'[t] \in {"release_free", "alt_use"}) => Claimed(targ'[t])
        /\ (ScanReturned /\ IsErr(last'.result)) => claimed_interfaces' = claimed_interfaces
      ]_vars

\* A release of an interface that is not claimed, on a handle with another
\* interface claimed: NotSupported.
C39_Witness ==
    /\ dpc = "live" /\ lock = 0
    /\ last.op = "release" /\ last.result = ErrorNotSupported
    /\ ~Claimed(last.ifnum)
    /\ claimed_interfaces # {}

(***************************************************************************)
(* Termination of wait_while_busy.                                         *)
(***************************************************************************)
\* wait_while_busy is in its loop.
Waiting == dfu_pc \in {"poll", "sleep"}

\* The loop's bound is short enough to run out within the polls followed.
ShortWait == dfu_call.op = "wait_while_busy" /\ dfu_call.timeout < MaxPolls

\* A get-status call was made in this step.
Polled == dfu_polls' = dfu_polls + 1

\* C40: wait_while_busy terminates whenever every get-status call returns and
\* time advances: it issues at least one get-status even for a zero bound,
\* returns the first get-status error immediately without polling again, and
\* once the bound has elapsed the next poll ends the loop (with success if
\* the status is zero, with an error otherwise), also when the device always
\* reports a poll-timeout of zero.
C40_WaitWhileBusyTerminates ==
    /\ []((dfu_pc = "returned" /\ dfu_call.op = "wait_while_busy") => dfu_polls >= 1)
    /\ [](\A k \in DOMAIN dfu_log :
            (dfu_log[k].op = "get_status" /\ ~dfu_log[k].ok) =>
                (k = Len(dfu_log) /\ dfu_pc = "returned" /\ IsErr(dfu_ret)))
    /\ [][Polled =>
            /\ dfu_elapsed' > dfu_elapsed
            /\ dfu_elapsed' > dfu_call.timeout =>
                  /\ dfu_pc' = "returned"
                  /\ dfu_ret' = (IF dfu_buf'[1] = 0 /\ dfu_log'[Len(dfu_log')].ok
                                 THEN Ok(0) ELSE dfu_ret')
                  /\ (dfu_buf'[1] # 0 \/ ~dfu_log'[Len(dfu_log')].ok) => IsErr(dfu_ret')]_vars
    /\ (Waiting /\ ShortWait) ~> (dfu_pc = "returned")

\* A wait bounded by 2 ms on a device that reported busy with a poll-timeout
\* of zero each time: three polls, two sleeps of 0 ms, an error.
C40_Witness ==
    /\ dfu_pc = "returned" /\ dfu_call = [op |-> "wait_while_busy", timeout |-> 2]
    /\ dfu_polls = 3 /\ Len(dfu_log) = 5
    /\ dfu_log[2].op = "sleep" /\ dfu_log[2].ms = 0
    /\ dfu_log[4].op = "sleep" /\ dfu_log[4].ms = 0
    /\ dfu_elapsed = 3
    /\ IsErr(dfu_ret)

====
